---------------------------- MODULE Spec2Model ----------------------------
(***************************************************************************)
(* Smart meeting room: the socket device registry (config/websocket.js),   *)
(* the command queue of the ESP32 service, the booking and emergency       *)
(* handlers of the WebSocket service, and the RS485 bus of the firmware.   *)
(* Times are in milliseconds, as in the JavaScript sources.                *)
(***************************************************************************)
EXTENDS Integers, Sequences, FiniteSets, TLC

(***************************************************************************)
(* Bounds of the model.                                                    *)
(***************************************************************************)
MaxSockets == 2
MaxTicks == 4
MaxCommands == 2
MaxTasks == 2
MaxBusFrames == 2
MaxTargetLen == 1
MaxTypeLen == 1
MaxPayloadLen == 2
MaxRequests == 3
MaxSlotTime == 3
MaxCountdown == 3
MaxDisplayTicks == 6

(***************************************************************************)
(* Program constants.                                                      *)
(***************************************************************************)
HeartbeatTimeoutMs == 60000
HeartbeatCheckIntervalMs == 30000
SecondMs == 1000
MinuteMs == 60 * SecondMs
\* qrService.validateQRCode: a booking may be entered 15 minutes before its start
EarlyAccessMs == 15 * 60 * 1000

TickMs == HeartbeatCheckIntervalMs

DeviceIds == {"ESP32A_001", "ESP32C_001"}
RoomIds == {"room1", "room2"}
\* the device and the room of the registry specification
GatewayId == "ESP32A_001"
RegDevices == {GatewayId}
RegRooms == {"room1"}
SocketIds == 1..MaxSockets
Undefined == "undefined"
EventTypes == {"EMERGENCY_BUTTON", "SENSOR_DATA"}
CommandTypes == {"ACTUATOR_CONTROL"}

VARIABLES
    now,                    \* wall clock (new Date() / Date.now())
    lastCheck,              \* time of the last run of the heartbeat interval
    sockState,              \* socket id -> "new" | "open" | "closed"
    socketDeviceId,         \* socket.deviceId
    socketRoomId,           \* socket.roomId
    socketIsWebClient,      \* socket.isWebClient
    connectedESP32Devices,  \* Map deviceId -> {socketId, roomId, lastSeen, status}
    webClients,             \* Set of socket ids
    emitted,                \* what the last handler emitted, in order
    srvConnectedESP32,      \* server.js: Map deviceId -> {socketId, type, lastHeartbeat}
    srvEsp32StatusA,        \* server.js: meetingRooms.room1.esp32Status.a
    srvLastCheck,           \* server.js: time of the last connection monitoring run
    srvActuators,           \* server.js: meetingRooms.room1.actuators
    deviceCommandQueue,     \* esp32Service: Map deviceId -> array of queued commands
    connectTasks,           \* the calls of handleDeviceConnect, each with its position
    deliveredLog,           \* every 'command' the services emitted to a device socket
    nextCmdId,              \* number of the next submitted command
    svcResult,              \* what the last sendCommandToDevice returned
    bookings,               \* the bookings table
    issued,                 \* the device commands the last booking handler issued
    qrResult,               \* what the last QR validation returned
    busPc,                  \* bus node -> position in sendRS485Message
    busDE,                  \* bus node -> level of its driver-enable pin
    busTx,                  \* bus node -> the line it is sending
    busRx,                  \* bus node -> bytes received and not yet read
    busDecoded,             \* bus node -> the frames it has decoded
    busSent,                \* number of frames sent on the bus
    codecInput,             \* the (target, type, payload) given to sendRS485Message
    codecLine,              \* the line it wrote
    codecDecoded,           \* what the node that read the line decoded
    calRows,                \* bookingController: the rows of the bookings table, by id
    calRequests,            \* the create and update requests, each with its position
    gwTx,                   \* gateway: the line its sendRS485Message last wrote
    gwTxInput,              \* gateway: the (target, command, params) it was given
    periphResult,           \* what the peripheral that read the gateway's line did
    periphTx,               \* the line a peripheral last wrote, and who wrote it
    gwReceived,             \* gateway: what parseRS485Message made of that line
    esp32bConnected,        \* gateway: deviceStatus.esp32bConnected
    esp32cConnected,        \* gateway: deviceStatus.esp32cConnected
    gwHeartbeat,            \* gateway: connectedDevices of the last heartbeat sent
    dispMillis,             \* display: millis()
    countdown,              \* display: displayState.countdown, in seconds
    countdownActive,        \* display: displayState.countdownActive
    countdownStart,         \* display: displayState.countdownStart
    dispStatus,             \* display: displayState.status
    countdownSeconds,       \* display: the seconds the last START_COUNTDOWN asked for
    dispSent                \* display: the frames the last step sent to the gateway

registryVars == <<now, lastCheck, sockState, socketDeviceId, socketRoomId,
                  socketIsWebClient, connectedESP32Devices, webClients, emitted>>

serverVars == <<srvConnectedESP32, srvEsp32StatusA, srvLastCheck, srvActuators>>

queueVars == <<deviceCommandQueue, connectTasks, deliveredLog, nextCmdId, svcResult>>

bookingVars == <<bookings, issued, qrResult>>

wireVars == <<busPc, busDE, busTx, busRx, busDecoded, busSent>>

codecVars == <<codecInput, codecLine, codecDecoded>>

busVars == <<wireVars, codecVars>>

calendarVars == <<calRows, calRequests>>

\* the state of the booking controller and of the firmware of the nodes
gatewayVars == <<gwTx, gwTxInput, periphResult, periphTx, gwReceived,
                 esp32bConnected, esp32cConnected, gwHeartbeat>>

displayVars == <<dispMillis, countdown, countdownActive, countdownStart, dispStatus,
                 countdownSeconds, dispSent>>

extVars == <<calendarVars, gatewayVars, displayVars>>

vars == <<registryVars, serverVars, queueVars, bookingVars, busVars, extVars>>

\* what the handlers of config/websocket.js leave alone
notRegistryVars == <<serverVars, queueVars, bookingVars, busVars, extVars>>

\* what the handlers of server.js leave alone
notServerVars == <<lastCheck, socketDeviceId, socketRoomId, socketIsWebClient,
                   connectedESP32Devices, webClients, emitted,
                   queueVars, bookingVars, busVars, extVars>>

(***************************************************************************)
(* Map helpers (JavaScript Map: has / get / set / delete).                 *)
(***************************************************************************)
MapHas(m, k) == k \in DOMAIN m

MapSet(m, k, v) == [x \in (DOMAIN m) \cup {k} |-> IF x = k THEN v ELSE m[x]]

MapDelete(m, k) == [x \in (DOMAIN m) \ {k} |-> m[x]]

EmptyMap == [x \in {} |-> 0]

OpenSockets == {s \in SocketIds : sockState[s] = "open"}

\* socket.emit(event, ...) on one socket
Emit(s, event, deviceId, cmd) ==
    [event |-> event, to |-> {s}, deviceId |-> deviceId, cmd |-> cmd]

\* broadcastToWebClients: every registered web client whose socket still exists
BroadcastToWebClients(event, deviceId) ==
    [event |-> event, to |-> webClients \cap OpenSockets, deviceId |-> deviceId,
     cmd |-> ""]

\* io.emit: every connected socket
IoEmit(event, deviceId) ==
    [event |-> event, to |-> OpenSockets, deviceId |-> deviceId, cmd |-> ""]

(***************************************************************************)
(* Initial state: no connection yet, empty registry.                       *)
(***************************************************************************)
InitRegistry ==
    /\ now = 0
    /\ lastCheck = 0
    /\ sockState = [s \in SocketIds |-> "new"]
    /\ socketDeviceId = [s \in SocketIds |-> Undefined]
    /\ socketRoomId = [s \in SocketIds |-> Undefined]
    /\ socketIsWebClient = [s \in SocketIds |-> FALSE]
    /\ connectedESP32Devices = EmptyMap
    /\ webClients = {}
    /\ emitted = <<>>

\* io.on('connection'): socket ids are fresh, never reused
Connection(s) ==
    /\ sockState[s] = "new"
    /\ \A t \in SocketIds : t < s => sockState[t] # "new"
    /\ sockState' = [sockState EXCEPT ![s] = "open"]
    /\ emitted' = <<>>
    /\ UNCHANGED <<now, lastCheck, socketDeviceId, socketRoomId, socketIsWebClient,
                   connectedESP32Devices, webClients>>
    /\ UNCHANGED notRegistryVars

\* the session record esp32_register stores
NewSession(s, roomId) ==
    [socketId |-> s, roomId |-> roomId, lastSeen |-> now, status |-> "connected"]

\* a registration that tells a reconnect from a first connect
RegisterNotificationReconnect(deviceId) ==
    IF MapHas(connectedESP32Devices, deviceId)
    THEN "device_reconnected" ELSE "device_connected"

\* the notification esp32_register broadcasts to the web clients
RegisterNotification(deviceId) == "device_connected"

\* socket.on('esp32_register')
Esp32Register(s, deviceId, roomId) ==
    /\ sockState[s] = "open"
    /\ connectedESP32Devices' = MapSet(connectedESP32Devices, deviceId, NewSession(s, roomId))
    /\ socketDeviceId' = [socketDeviceId EXCEPT ![s] = deviceId]
    /\ socketRoomId' = [socketRoomId EXCEPT ![s] = roomId]
    /\ emitted' = << Emit(s, "registration_success", deviceId, ""),
                     BroadcastToWebClients(RegisterNotification(deviceId), deviceId) >>
    /\ UNCHANGED <<now, lastCheck, sockState, socketIsWebClient, webClients>>
    /\ UNCHANGED notRegistryVars

\* socket.on('web_client_register')
WebClientRegister(s) ==
    /\ sockState[s] = "open"
    /\ webClients' = webClients \cup {s}
    /\ socketIsWebClient' = [socketIsWebClient EXCEPT ![s] = TRUE]
    /\ emitted' = << Emit(s, "device_status_list", "", "") >>
    /\ UNCHANGED <<now, lastCheck, sockState, socketDeviceId, socketRoomId,
                   connectedESP32Devices>>
    /\ UNCHANGED notRegistryVars

\* "Update last seen timestamp" of esp32_event and of heartbeat
TouchLastSeen(session) == [session EXCEPT !.lastSeen = now]

\* handleESP32Event: only EMERGENCY_BUTTON does anything (handleEmergency)
HandleESP32EventEmits(s, eventType) ==
    IF eventType = "EMERGENCY_BUTTON"
    THEN << IoEmit("emergency_alert", socketRoomId[s]) >>
    ELSE <<>>

\* socket.on('esp32_event')
Esp32Event(s, eventType) ==
    /\ sockState[s] = "open"
    /\ LET deviceId == socketDeviceId[s] IN
       /\ connectedESP32Devices' =
            IF MapHas(connectedESP32Devices, deviceId)
            THEN MapSet(connectedESP32Devices, deviceId,
                        TouchLastSeen(connectedESP32Devices[deviceId]))
            ELSE connectedESP32Devices
       /\ emitted' = << BroadcastToWebClients("esp32_event", deviceId) >>
                     \o HandleESP32EventEmits(s, eventType)
    /\ UNCHANGED <<now, lastCheck, sockState, socketDeviceId, socketRoomId,
                   socketIsWebClient, webClients>>
    /\ UNCHANGED notRegistryVars

\* socket.on('heartbeat')
Heartbeat(s) ==
    /\ sockState[s] = "open"
    /\ LET deviceId == socketDeviceId[s] IN
       connectedESP32Devices' =
            IF deviceId # Undefined /\ MapHas(connectedESP32Devices, deviceId)
            THEN MapSet(connectedESP32Devices, deviceId,
                        TouchLastSeen(connectedESP32Devices[deviceId]))
            ELSE connectedESP32Devices
    /\ emitted' = <<>>
    /\ UNCHANGED <<now, lastCheck, sockState, socketDeviceId, socketRoomId,
                   socketIsWebClient, webClients>>
    /\ UNCHANGED notRegistryVars

\* socket.on('send_command')
SendCommand(s, targetDeviceId, command) ==
    /\ sockState[s] = "open"
    /\ emitted' =
         IF MapHas(connectedESP32Devices, targetDeviceId)
         THEN LET device == connectedESP32Devices[targetDeviceId] IN
              IF sockState[device.socketId] = "open"
              THEN << Emit(device.socketId, "command", targetDeviceId, command) >>
                   \o (IF socketIsWebClient[s]
                       THEN << Emit(s, "command_sent", targetDeviceId, command) >>
                       ELSE <<>>)
              ELSE << Emit(s, "command_error", targetDeviceId, command) >>
         ELSE << Emit(s, "command_error", targetDeviceId, command) >>
    /\ UNCHANGED <<now, lastCheck, sockState, socketDeviceId, socketRoomId,
                   socketIsWebClient, connectedESP32Devices, webClients>>
    /\ UNCHANGED notRegistryVars

\* socket.on('disconnect')
Disconnect(s) ==
    /\ sockState[s] = "open"
    /\ sockState' = [sockState EXCEPT ![s] = "closed"]
    /\ connectedESP32Devices' =
         IF socketDeviceId[s] # Undefined
         THEN MapDelete(connectedESP32Devices, socketDeviceId[s])
         ELSE connectedESP32Devices
    /\ webClients' = IF socketIsWebClient[s] THEN webClients \ {s} ELSE webClients
    /\ emitted' =
         IF socketDeviceId[s] # Undefined
         THEN << [event |-> "device_disconnected",
                  to |-> (webClients \cap OpenSockets) \ {s},
                  deviceId |-> socketDeviceId[s], cmd |-> ""] >>
         ELSE <<>>
    /\ UNCHANGED <<now, lastCheck, socketDeviceId, socketRoomId, socketIsWebClient>>
    /\ UNCHANGED notRegistryVars

\* the test of the heartbeat sweep: now - device.lastSeen > timeoutMs
HeartbeatExpired(session) == now - session.lastSeen > HeartbeatTimeoutMs

\* a sweep with the timeout doubled
SweepSessionLate(session) ==
    IF now - session.lastSeen > 2 * HeartbeatTimeoutMs
    THEN [session EXCEPT !.status = "timeout"] ELSE session

\* what the sweep does to one session
SweepSession(session) ==
    IF HeartbeatExpired(session) THEN [session EXCEPT !.status = "timeout"] ELSE session

RECURSIVE SeqOfSet(_)
SeqOfSet(S) ==
    IF S = {} THEN <<>>
    ELSE LET x == CHOOSE y \in S : TRUE IN <<x>> \o SeqOfSet(S \ {x})

\* startHeartbeatCheck: the body of the 30 s interval
HeartbeatCheck ==
    /\ now - lastCheck >= HeartbeatCheckIntervalMs
    /\ lastCheck' = now
    /\ connectedESP32Devices' =
         [d \in DOMAIN connectedESP32Devices |-> SweepSession(connectedESP32Devices[d])]
    /\ emitted' =
         LET expired == {d \in DOMAIN connectedESP32Devices :
                            HeartbeatExpired(connectedESP32Devices[d])}
             order == SeqOfSet(expired)
         IN [i \in 1..Len(order) |-> BroadcastToWebClients("device_timeout", order[i])]
    /\ UNCHANGED <<now, sockState, socketDeviceId, socketRoomId, socketIsWebClient,
                   webClients>>
    /\ UNCHANGED notRegistryVars

\* time passes; the interval timer fires before more time passes
Tick ==
    /\ now < MaxTicks * TickMs
    /\ now - lastCheck < HeartbeatCheckIntervalMs
    /\ now' = now + TickMs
    /\ UNCHANGED <<lastCheck, sockState, socketDeviceId, socketRoomId, socketIsWebClient,
                   connectedESP32Devices, webClients, emitted>>
    /\ UNCHANGED notRegistryVars

(***************************************************************************)
(* Properties of the device registry.                                      *)
(***************************************************************************)
EventNames(out) == {out[i].event : i \in 1..Len(out)}

C3_SweptSessionsTimedOut ==
    (now > 0 /\ lastCheck = now) =>
        \A d \in DOMAIN connectedESP32Devices :
            now - connectedESP32Devices[d].lastSeen > HeartbeatTimeoutMs
                => connectedESP32Devices[d].status = "timeout"

C3_NoSilentRecovery ==
    \A d \in DOMAIN connectedESP32Devices :
        ( /\ connectedESP32Devices[d].status = "timeout"
          /\ MapHas(connectedESP32Devices', d)
          /\ connectedESP32Devices'[d].status = "connected" )
        => \/ \E s \in SocketIds, r \in RoomIds : Esp32Register(s, d, r)
           \/ \E s \in SocketIds :
                /\ socketDeviceId[s] = d
                /\ (Heartbeat(s) \/ \E e \in EventTypes : Esp32Event(s, e))

C3_TimeoutSticks == [](C3_SweptSessionsTimedOut) /\ [][C3_NoSilentRecovery]_vars

\* a sweep has just put a session in state timeout
C3_Witness ==
    /\ lastCheck = now
    /\ MapHas(connectedESP32Devices, GatewayId)
    /\ connectedESP32Devices[GatewayId].status = "timeout"
    /\ now - connectedESP32Devices[GatewayId].lastSeen > HeartbeatTimeoutMs

\* C9: a heartbeat or an event arriving on the connection that registered a
\* session in state timeout puts the session back in state connected.
C9_HeartbeatRevives ==
    [][\A s \in SocketIds :
         ( /\ (Heartbeat(s) \/ (\E e \in EventTypes : Esp32Event(s, e)))
           /\ MapHas(connectedESP32Devices, socketDeviceId[s])
           /\ connectedESP32Devices[socketDeviceId[s]].socketId = s
           /\ connectedESP32Devices[socketDeviceId[s]].status = "timeout" )
         => connectedESP32Devices'[socketDeviceId[s]].status = "connected"]_vars

\* C31: device_timeout is emitted once per transition from connected to
\* timeout: a sweep emits nothing for a session that is already in state
\* timeout.
C31_TimeoutEmittedOnce ==
    [][ HeartbeatCheck =>
          \A d \in DOMAIN connectedESP32Devices :
              connectedESP32Devices[d].status = "timeout"
              => \A i \in 1..Len(emitted') :
                    ~(emitted'[i].event = "device_timeout" /\ emitted'[i].deviceId = d) ]_vars

\* C33: every emergency-button event received from a registered device leads
\* to a door command for the room of the device, not only to the broadcast.
C33_EmergencyEventUnlocks ==
    [][ \A s \in SocketIds :
          (Esp32Event(s, "EMERGENCY_BUTTON") /\ socketDeviceId[s] # Undefined)
          => \E i \in 1..Len(emitted') :
                emitted'[i].event = "command" /\ emitted'[i].cmd = "door" ]_vars

\* the session handlers with every device and room a register message may name
NextSessions ==
    \/ \E s \in SocketIds : Connection(s)
    \/ \E s \in SocketIds, d \in DeviceIds, r \in RoomIds : Esp32Register(s, d, r)
    \/ \E s \in SocketIds : WebClientRegister(s)
    \/ \E s \in SocketIds, d \in DeviceIds, c \in CommandTypes : SendCommand(s, d, c)
    \/ \E s \in SocketIds : Disconnect(s)

\* C24: within one connection's lifetime the roomId of a session is set at
\* most once: a later register message on the same connection changes neither
\* the roomId kept on the connection nor the one recorded in the session.
C24_RoomIdSetOnce ==
    [][ \A s \in SocketIds, d \in DeviceIds, r \in RoomIds :
          (Esp32Register(s, d, r) /\ socketRoomId[s] # Undefined)
          => /\ socketRoomId'[s] = socketRoomId[s]
             /\ connectedESP32Devices'[d].roomId = socketRoomId[s] ]_vars

\* the replies (command_sent, command_error) a handler emitted to socket s
Replies(em, s) ==
    {i \in 1..Len(em) : em[i].to = {s} /\ em[i].event \in {"command_sent", "command_error"}}

\* the commands a handler emitted to the devices
CommandsEmitted(em) == {i \in 1..Len(em) : em[i].event = "command"}

\* C25: every send_command gets exactly one reply to its sender: command_sent
\* when the command was emitted to the target device, command_error otherwise;
\* the registry is never changed.
C25_OneReply ==
    [][ \A s \in SocketIds, d \in DeviceIds, c \in CommandTypes :
          SendCommand(s, d, c)
          => /\ Cardinality(Replies(emitted', s)) = 1
             /\ \A i \in Replies(emitted', s) :
                  emitted'[i].event = "command_sent" <=> CommandsEmitted(emitted') # {}
             /\ connectedESP32Devices' = connectedESP32Devices ]_vars

\* C29: when a device has registered again on a new connection while the old
\* one is still open, the disconnect of the old connection leaves the session
\* of the device, which points to the new connection, as it is.
C29_OldDisconnectKeepsSession ==
    [][ \A s \in SocketIds :
          ( /\ Disconnect(s)
            /\ socketDeviceId[s] # Undefined
            /\ MapHas(connectedESP32Devices, socketDeviceId[s])
            /\ connectedESP32Devices[socketDeviceId[s]].socketId # s )
          => connectedESP32Devices' = connectedESP32Devices ]_vars

\* C30: no registry entry refers to a connection that has closed.
C30_NoEntryOfClosedConnection ==
    \A d \in DOMAIN connectedESP32Devices :
        sockState[connectedESP32Devices[d].socketId] # "closed"

(***************************************************************************)
(* server.js: the gateway server with its own registry connectedESP32.     *)
(* The Map is a sequence of entries in insertion order.                    *)
(***************************************************************************)
SrvTimeoutMs == 30000
SrvCheckIntervalMs == 10000

InitServer ==
    /\ srvConnectedESP32 = <<>>
    /\ srvEsp32StatusA = "disconnected"
    /\ srvLastCheck = 0
    /\ srvActuators = [lights |-> FALSE, ac |-> FALSE, door |-> "locked", buzzer |-> FALSE]

SrvKeys(m) == {m[i].deviceId : i \in 1..Len(m)}

SrvIndexOf(m, k) == CHOOSE i \in 1..Len(m) : m[i].deviceId = k

\* Map.set: an existing key keeps its place, a new key goes last
SrvMapSet(m, entry) ==
    IF entry.deviceId \in SrvKeys(m)
    THEN [m EXCEPT ![SrvIndexOf(m, entry.deviceId)] = entry]
    ELSE Append(m, entry)

\* Map.delete
SrvMapDelete(m, k) == SelectSeq(m, LAMBDA e : e.deviceId # k)

\* io.on('connection') of server.js
SrvConnection(s) ==
    /\ sockState[s] = "new"
    /\ \A t \in SocketIds : t < s => sockState[t] # "new"
    /\ sockState' = [sockState EXCEPT ![s] = "open"]
    /\ UNCHANGED <<now, serverVars, notServerVars>>

\* socket.on('esp32_register') of server.js: only type 'gateway' is stored
SrvEsp32Register(s, deviceId, type) ==
    /\ sockState[s] = "open"
    /\ IF type = "gateway"
       THEN /\ srvConnectedESP32' =
                 SrvMapSet(srvConnectedESP32,
                           [deviceId |-> deviceId, socketId |-> s, type |-> "esp32a",
                            lastHeartbeat |-> now, status |-> "connected"])
            /\ srvEsp32StatusA' = "connected"
       ELSE UNCHANGED <<srvConnectedESP32, srvEsp32StatusA>>
    /\ UNCHANGED <<now, sockState, srvLastCheck, srvActuators, notServerVars>>

\* socket.on('heartbeat') of server.js: the deviceId comes from the message
SrvHeartbeat(s, deviceId) ==
    /\ sockState[s] = "open"
    /\ srvConnectedESP32' =
         IF deviceId \in SrvKeys(srvConnectedESP32)
         THEN [srvConnectedESP32 EXCEPT
                 ![SrvIndexOf(srvConnectedESP32, deviceId)].lastHeartbeat = now]
         ELSE srvConnectedESP32
    /\ UNCHANGED <<now, sockState, srvEsp32StatusA, srvLastCheck, srvActuators, notServerVars>>

\* socket.on('disconnect') of server.js: the first entry of this socket goes
SrvDisconnect(s) ==
    /\ sockState[s] = "open"
    /\ sockState' = [sockState EXCEPT ![s] = "closed"]
    /\ LET mine == {i \in 1..Len(srvConnectedESP32) : srvConnectedESP32[i].socketId = s} IN
       IF mine = {}
       THEN UNCHANGED <<srvConnectedESP32, srvEsp32StatusA>>
       ELSE LET first == CHOOSE i \in mine : \A j \in mine : i <= j IN
            /\ srvConnectedESP32' =
                 SrvMapDelete(srvConnectedESP32, srvConnectedESP32[first].deviceId)
            /\ srvEsp32StatusA' =
                 IF srvConnectedESP32[first].type = "esp32a"
                 THEN "disconnected" ELSE srvEsp32StatusA
    /\ UNCHANGED <<now, srvLastCheck, srvActuators, notServerVars>>

\* the test of the connection monitoring: now - device.lastHeartbeat > timeout
SrvExpired(entry) == now - entry.lastHeartbeat > SrvTimeoutMs

\* the connection monitoring interval of server.js
SrvConnectionMonitor ==
    /\ now - srvLastCheck >= SrvCheckIntervalMs
    /\ srvLastCheck' = now
    /\ srvConnectedESP32' = SelectSeq(srvConnectedESP32, LAMBDA e : ~SrvExpired(e))
    /\ srvEsp32StatusA' =
         IF \E i \in 1..Len(srvConnectedESP32) :
                SrvExpired(srvConnectedESP32[i]) /\ srvConnectedESP32[i].type = "esp32a"
         THEN "disconnected" ELSE srvEsp32StatusA
    /\ UNCHANGED <<now, sockState, srvActuators, notServerVars>>

\* time passes on the server; the monitoring interval fires before more passes
SrvTick ==
    /\ now < MaxTicks * SrvCheckIntervalMs
    /\ now - srvLastCheck < SrvCheckIntervalMs
    /\ now' = now + SrvCheckIntervalMs
    /\ UNCHANGED <<sockState, serverVars, notServerVars>>

\* the (target, action) pairs of the command messages followed
SrvCommands == { <<"lights", "on">>, <<"lights", "off">>, <<"door", "open">>,
                 <<"display", "update">> }

\* processCommand: the cached actuator state it leaves
SrvProcessActuators(target, action) ==
    IF target = "door" /\ action = "unlock" THEN [srvActuators EXCEPT !.door = "unlocked"]
    ELSE IF target = "door" /\ action = "lock" THEN [srvActuators EXCEPT !.door = "locked"]
    ELSE IF target = "lights" THEN [srvActuators EXCEPT !.lights = (action = "on")]
    ELSE IF target = "ac" THEN [srvActuators EXCEPT !.ac = (action = "on")]
    ELSE IF target = "buzzer" THEN [srvActuators EXCEPT !.buzzer = (action = "on")]
    ELSE srvActuators

\* processCommand: the RS485 command it hands to the gateways, "" when it throws
SrvProcessCommand(target, action) ==
    IF target = "door" /\ action = "unlock" THEN "UNLOCK_DOOR"
    ELSE IF target = "door" /\ action = "lock" THEN "LOCK_DOOR"
    ELSE IF target = "lights" THEN (IF action = "on" THEN "LIGHTS_ON" ELSE "LIGHTS_OFF")
    ELSE IF target = "ac" THEN (IF action = "on" THEN "AC_ON" ELSE "AC_OFF")
    ELSE IF target = "buzzer" THEN (IF action = "on" THEN "BUZZER_ON" ELSE "BUZZER_OFF")
    ELSE IF target = "display" THEN "UPDATE_DISPLAY"
    ELSE ""

\* broadcastToESP32A: one emit per stored gateway, in the order of the Map
SrvBroadcastToESP32A(event, cmd) ==
    [i \in 1..Len(srvConnectedESP32) |->
        Emit(srvConnectedESP32[i].socketId, event, srvConnectedESP32[i].deviceId, cmd)]

\* socket.on('command') of server.js: processCommand, then the response
SrvCommand(s, target, action) ==
    /\ sockState[s] = "open"
    /\ srvActuators' = SrvProcessActuators(target, action)
    /\ emitted' =
         IF SrvProcessCommand(target, action) # ""
         THEN SrvBroadcastToESP32A("rs485_command", SrvProcessCommand(target, action))
              \o << Emit(s, "command_response", "", "success") >>
         ELSE << Emit(s, "command_response", "", "error") >>
    /\ UNCHANGED <<now, sockState, srvConnectedESP32, srvEsp32StatusA, srvLastCheck>>
    /\ UNCHANGED <<lastCheck, socketDeviceId, socketRoomId, socketIsWebClient,
                   connectedESP32Devices, webClients, queueVars, bookingVars, busVars, extVars>>

NextServer ==
    \/ \E s \in SocketIds : SrvConnection(s)
    \/ \E s \in SocketIds, d \in DeviceIds, t \in {"gateway", "display"} :
          SrvEsp32Register(s, d, t)
    \/ \E s \in SocketIds, d \in DeviceIds : SrvHeartbeat(s, d)
    \/ \E s \in SocketIds : SrvDisconnect(s)
    \/ \E s \in SocketIds, c \in SrvCommands : SrvCommand(s, c[1], c[2])
    \/ SrvConnectionMonitor
    \/ SrvTick

\* C10: a sweep of the heartbeat monitor removes no session from the
\* registry and closes no connection; it only sets the state to timeout.
C10_SweepKeepsSessions ==
    [][ /\ HeartbeatCheck =>
            /\ DOMAIN connectedESP32Devices' = DOMAIN connectedESP32Devices
            /\ sockState' = sockState
        /\ SrvConnectionMonitor =>
            /\ SrvKeys(srvConnectedESP32') = SrvKeys(srvConnectedESP32)
            /\ sockState' = sockState ]_vars

\* C27: submitting a command does not by itself change the cached actuator
\* state of the room, whether or not a gateway is connected; the cache follows
\* the acknowledgments and status reports of the devices.
C27_CommandKeepsCache ==
    [][ \A s \in SocketIds, c \in SrvCommands :
          SrvCommand(s, c[1], c[2]) => srvActuators' = srvActuators ]_vars

(***************************************************************************)
(* esp32Service.js and websocketService.js: sending a command to a device, *)
(* the queue of commands for offline devices, and its flush on connect.    *)
(***************************************************************************)
NoResult == [id |-> 0, deviceId |-> Undefined, hadSession |-> FALSE,
             success |-> FALSE, message |-> ""]

\* what the handlers of the two services leave alone
notQueueVars == <<registryVars, serverVars, bookingVars, busVars, extVars>>

\* config/websocket.js sendCommandToDevice: the socket the command goes to, 0 if none
TargetSocket(deviceId) ==
    IF MapHas(connectedESP32Devices, deviceId)
       /\ sockState[connectedESP32Devices[deviceId].socketId] = "open"
    THEN connectedESP32Devices[deviceId].socketId
    ELSE 0

\* the 'command' emits of one call, appended to the log of deliveries
Delivered(deviceId, cmd, fromQueue) ==
    IF TargetSocket(deviceId) # 0
    THEN << [socketId |-> TargetSocket(deviceId), deviceId |-> deviceId,
             id |-> cmd.id, type |-> cmd.type, fromQueue |-> fromQueue] >>
    ELSE <<>>

\* the result websocketService.sendCommandToDevice returns
SendResult(deviceId, id, logOk) ==
    [id |-> id, deviceId |-> deviceId,
     hadSession |-> MapHas(connectedESP32Devices, deviceId),
     success |-> (TargetSocket(deviceId) # 0 /\ logOk),
     message |-> IF TargetSocket(deviceId) = 0 THEN "Device not connected"
                 ELSE IF logOk THEN "Command sent successfully"
                 ELSE "Failed to send command"]

\* websocketService.sendCommandToDevice called for a new command; the event
\* log written after the emit succeeds (logOk) or throws
SubmitCommand(deviceId, type, logOk) ==
    /\ nextCmdId <= MaxCommands
    /\ nextCmdId' = nextCmdId + 1
    /\ deliveredLog' = deliveredLog
            \o Delivered(deviceId, [id |-> nextCmdId, type |-> type], FALSE)
    /\ svcResult' = SendResult(deviceId, nextCmdId, logOk)
    /\ UNCHANGED <<deviceCommandQueue, connectTasks, notQueueVars>>

\* the command types given to queueCommandForDevice: an ordinary command and
\* an emergency one
EmergencyType == "EMERGENCY"
QueuedTypes == CommandTypes \cup {EmergencyType}

\* a task whose array is still the one the Map holds for the device
Aliased(task, deviceId) ==
    task.deviceId = deviceId /\ task.pc = "loop" /\ task.aliased

\* esp32Service.queueCommandForDevice: push on the array of the device
QueueCommandForDevice(deviceId, type) ==
    /\ nextCmdId <= MaxCommands
    /\ nextCmdId' = nextCmdId + 1
    /\ LET entry == [id |-> nextCmdId, type |-> type, timestamp |-> now]
           old == IF MapHas(deviceCommandQueue, deviceId)
                  THEN deviceCommandQueue[deviceId] ELSE <<>>
       IN /\ deviceCommandQueue' = MapSet(deviceCommandQueue, deviceId, Append(old, entry))
          /\ connectTasks' =
               [t \in 1..Len(connectTasks) |->
                  IF Aliased(connectTasks[t], deviceId)
                  THEN [connectTasks[t] EXCEPT !.arr = Append(@, entry)]
                  ELSE connectTasks[t]]
    /\ UNCHANGED <<deliveredLog, svcResult, notQueueVars>>

\* esp32Service.handleDeviceConnect, up to its first await
HandleDeviceConnectStart(deviceId) ==
    /\ Len(connectTasks) < MaxTasks
    /\ connectTasks' = Append(connectTasks,
            [deviceId |-> deviceId, pc |-> "log", arr |-> <<>>, aliased |-> FALSE, i |-> 1])
    /\ UNCHANGED <<deviceCommandQueue, deliveredLog, nextCmdId, svcResult, notQueueVars>>

\* this.deviceCommandQueue.delete(deviceId) at the end of the loop of task t
FlushDone(t) ==
    /\ deviceCommandQueue' = MapDelete(deviceCommandQueue, connectTasks[t].deviceId)
    /\ connectTasks' =
         [u \in 1..Len(connectTasks) |->
            IF u = t THEN [connectTasks[u] EXCEPT !.pc = "done", !.aliased = FALSE]
            ELSE IF connectTasks[u].deviceId = connectTasks[t].deviceId
                 THEN [connectTasks[u] EXCEPT !.aliased = FALSE]
                 ELSE connectTasks[u]]
    /\ UNCHANGED deliveredLog

\* one turn of the for-of loop of task t over the array arr, from index i on:
\* the next command is sent and the task awaits, or the loop ends
FlushStep(t, arr, i) ==
    IF i <= Len(arr)
    THEN /\ deliveredLog' = deliveredLog \o Delivered(connectTasks[t].deviceId, arr[i], TRUE)
         /\ connectTasks' = [connectTasks EXCEPT ![t] =
                [@ EXCEPT !.pc = "loop", !.arr = arr, !.aliased = (@ \/ i = 1), !.i = i + 1]]
         /\ UNCHANGED deviceCommandQueue
    ELSE FlushDone(t)

\* handleDeviceConnect after the await of the connection log entry, which
\* succeeded (logOk) or threw
HandleDeviceConnectLogged(t, logOk) ==
    /\ t \in 1..Len(connectTasks)
    /\ connectTasks[t].pc = "log"
    /\ IF logOk /\ MapHas(deviceCommandQueue, connectTasks[t].deviceId)
       THEN FlushStep(t, deviceCommandQueue[connectTasks[t].deviceId], 1)
       ELSE /\ connectTasks' = [connectTasks EXCEPT ![t].pc = "done"]
            /\ UNCHANGED <<deviceCommandQueue, deliveredLog>>
    /\ UNCHANGED <<nextCmdId, svcResult, notQueueVars>>

\* handleDeviceConnect after the await of one sendCommandToDevice of the loop
HandleDeviceConnectResume(t) ==
    /\ t \in 1..Len(connectTasks)
    /\ connectTasks[t].pc = "loop"
    /\ FlushStep(t, connectTasks[t].arr, connectTasks[t].i)
    /\ UNCHANGED <<nextCmdId, svcResult, notQueueVars>>

NextQueue ==
    \/ \E s \in SocketIds : Connection(s)
    \/ \E s \in SocketIds, d \in RegDevices, r \in RegRooms : Esp32Register(s, d, r)
    \/ \E s \in SocketIds : Disconnect(s)
    \/ \E d \in RegDevices, c \in CommandTypes, logOk \in BOOLEAN : SubmitCommand(d, c, logOk)
    \/ \E d \in RegDevices, c \in QueuedTypes : QueueCommandForDevice(d, c)
    \/ \E d \in RegDevices : HandleDeviceConnectStart(d)
    \/ \E t \in 1..MaxTasks, logOk \in BOOLEAN : HandleDeviceConnectLogged(t, logOk)
    \/ \E t \in 1..MaxTasks : HandleDeviceConnectResume(t)

\* C1: a command submitted while its target device has no session is put in
\* the queue of that device and the outcome reported is Queued (from where it
\* is delivered once, after the reconnect).
C1_OfflineCommandQueued ==
    (svcResult.id # 0 /\ ~svcResult.hadSession) =>
        /\ svcResult.message = "Queued"
        /\ MapHas(deviceCommandQueue, svcResult.deviceId)
        /\ \E i \in 1..Len(deviceCommandQueue[svcResult.deviceId]) :
              deviceCommandQueue[svcResult.deviceId][i].id = svcResult.id

\* C8: the queued commands of a device reach a connection in the order in
\* which they were queued and none of them reaches it twice, also when two
\* connect notifications of the device are handled concurrently.
C8_QueuedSentOnceInOrder ==
    \A i, j \in 1..Len(deliveredLog) :
        ( /\ i < j
          /\ deliveredLog[i].fromQueue /\ deliveredLog[j].fromQueue
          /\ deliveredLog[i].socketId = deliveredLog[j].socketId
          /\ deliveredLog[i].deviceId = deliveredLog[j].deviceId )
        => deliveredLog[i].id < deliveredLog[j].id

\* C20: an emergency command pending for a device together with queued
\* commands that are not emergencies is attempted first: it is put at the head
\* of the queue of the device, so that no other command is ahead of it.
C20_EmergencyAtHead ==
    \A d \in DOMAIN deviceCommandQueue :
        \A i, j \in 1..Len(deviceCommandQueue[d]) :
            (i < j /\ deviceCommandQueue[d][j].type = EmergencyType)
                => deviceCommandQueue[d][i].type = EmergencyType

\* esp32Service.cleanupQueuedCommands: the default of its maxAge parameter
MaxAgeMs == 24 * 60 * 60 * 1000

\* the maximum ages the cleanup is called with: the default and a short one
MaxAges == {MaxAgeMs, 1}

\* the instants of the cleanup clock, around the maximum age of a command
\* queued at 0 or at 1
CleanupTimes == {0, 1, MaxAgeMs - 1, MaxAgeMs, MaxAgeMs + 1}

\* a keep test that lets a command of exactly the maximum age stay
YoungerOrEqual(command, maxAge) == (now - command.timestamp) <= maxAge

\* the callback of commands.filter: (now - commandTime) < maxAge
Younger(command, maxAge) == (now - command.timestamp) < maxAge

\* commands.filter(...) of one array
FilteredCommands(commands, maxAge) ==
    SelectSeq(commands, LAMBDA command : Younger(command, maxAge))

\* esp32Service.cleanupQueuedCommands: every array that loses a command is
\* replaced in the Map by the filtered one, which a running flush of the old
\* array does not see
CleanupQueuedCommands(maxAge) ==
    /\ deviceCommandQueue' =
         [d \in DOMAIN deviceCommandQueue |->
            FilteredCommands(deviceCommandQueue[d], maxAge)]
    /\ connectTasks' =
         [t \in 1..Len(connectTasks) |->
            LET d == connectTasks[t].deviceId
            IN IF /\ MapHas(deviceCommandQueue, d)
                  /\ Aliased(connectTasks[t], d)
                  /\ Len(FilteredCommands(deviceCommandQueue[d], maxAge))
                       # Len(deviceCommandQueue[d])
               THEN [connectTasks[t] EXCEPT !.aliased = FALSE]
               ELSE connectTasks[t]]
    /\ UNCHANGED <<deliveredLog, nextCmdId, svcResult, notQueueVars>>

\* the clock moves on to a later instant
CleanupClock ==
    /\ now' \in CleanupTimes
    /\ now' > now
    /\ UNCHANGED <<lastCheck, sockState, socketDeviceId, socketRoomId,
                   socketIsWebClient, connectedESP32Devices, webClients, emitted,
                   serverVars, queueVars, bookingVars, busVars, extVars>>

\* commands are queued for two devices while the clock runs and the cleanup
\* is called
NextCleanup ==
    \/ \E d \in DeviceIds, c \in QueuedTypes : QueueCommandForDevice(d, c)
    \/ \E maxAge \in MaxAges : CleanupQueuedCommands(maxAge)
    \/ CleanupClock

\* C39: a cleanup removes exactly the queued commands whose age is at least
\* the maximum age (24 hours by default): every command that stays is younger
\* than the maximum age and was queued for the device before, every younger
\* command stays, and the commands that stay keep their relative order.
C39_CleanupRemovesOld ==
    [][\A maxAge \in MaxAges :
         CleanupQueuedCommands(maxAge) =>
           /\ DOMAIN deviceCommandQueue' = DOMAIN deviceCommandQueue
           /\ \A d \in DOMAIN deviceCommandQueue :
                LET old == deviceCommandQueue[d]
                    new == deviceCommandQueue'[d]
                IN /\ \A i \in 1..Len(new) :
                        /\ (now - new[i].timestamp) < maxAge
                        /\ \E k \in 1..Len(old) : old[k] = new[i]
                   /\ \A k \in 1..Len(old) :
                        ((now - old[k].timestamp) < maxAge)
                          => \E i \in 1..Len(new) : new[i] = old[k]
                   /\ \A i, j \in 1..Len(new) :
                        (i < j) => \E k, l \in 1..Len(old) :
                                      k < l /\ old[k] = new[i] /\ old[l] = new[j]
                   /\ Len(new) <= Len(old)]_vars

\* a cleanup with the default maximum age has removed the first command of the
\* gateway, a day old, and kept the second one, queued later
C39_OldRemovedYoungKept ==
    /\ DOMAIN deviceCommandQueue = {GatewayId}
    /\ Len(deviceCommandQueue[GatewayId]) = 1
    /\ deviceCommandQueue[GatewayId][1].id = 2
    /\ deviceCommandQueue[GatewayId][1].timestamp = 1
    /\ now = MaxAgeMs

\* the dispatcher with the heartbeat sweep: sessions time out while commands
\* are submitted
NextDispatch ==
    \/ \E s \in SocketIds : Connection(s)
    \/ \E s \in SocketIds, d \in RegDevices, r \in RegRooms : Esp32Register(s, d, r)
    \/ \E s \in SocketIds : Disconnect(s)
    \/ \E d \in RegDevices, c \in CommandTypes, logOk \in BOOLEAN : SubmitCommand(d, c, logOk)
    \/ HeartbeatCheck
    \/ Tick

\* C21: a command submitted while the session of its target is missing or in
\* state timeout or closed sends nothing to the device and is reported as
\* Queued; stated here for a session that is in the registry and not
\* connected (the missing session is the case of C1).
C21_TimedOutNotSent ==
    [][ \A d \in RegDevices, c \in CommandTypes, logOk \in BOOLEAN :
          ( /\ SubmitCommand(d, c, logOk)
            /\ MapHas(connectedESP32Devices, d)
            /\ connectedESP32Devices[d].status \in {"timeout", "closed"} )
          => /\ deliveredLog' = deliveredLog
             /\ svcResult'.message = "Queued" ]_vars

(***************************************************************************)
(* Bookings: QR validation (qrService), start and end of a meeting and the *)
(* emergency shutdown (websocketService), on the bookings table.           *)
(***************************************************************************)
BookingIds == {"b1"}
\* the booking of the table: from BookingStart to BookingEnd, one hour later
BookingStart == 60 * MinuteMs
BookingEnd == BookingStart + 3600 * SecondMs
\* the instants at which the clock is read
ScanTooEarly == BookingStart - 16 * MinuteMs
ScanInWindow == BookingStart - 14 * MinuteMs
ScanExpired == BookingStart + 3601 * SecondMs
StartedLately == BookingStart + 14 * MinuteMs
TimePoints == {ScanTooEarly, BookingStart - EarlyAccessMs, ScanInWindow,
               BookingStart, StartedLately, BookingEnd, ScanExpired}

\* rooms table: room id -> esp32_id
RoomEsp32Id(roomId) == GatewayId

\* room.esp32_id.replace('ESP32A', 'ESP32C')
DisplayDeviceId(esp32Id) == IF esp32Id = "ESP32A_001" THEN "ESP32C_001" ELSE esp32Id

\* the string scanned: JSON of a QR data object, or a plain code (legacy format)
Tokens ==
    [format : {"json"}, type : {"booking"}, booking_id : BookingIds \cup {"b9"},
     qr_code : {"qr1"}]
    \cup [format : {"json"}, type : {"booking"}, booking_id : BookingIds, qr_code : {"qr9"}]
    \cup [format : {"json"}, type : {"room_access"}, booking_id : BookingIds, qr_code : {"qr1"}]
    \cup [format : {"legacy"}, type : {""}, booking_id : {""}, qr_code : {"qr1"}]

NoScan == [scanned |-> FALSE, token |-> [format |-> "", type |-> "", booking_id |-> "",
                                        qr_code |-> ""],
           at |-> 0, status |-> "", success |-> FALSE, message |-> ""]

notBookingVars == <<lastCheck, sockState, socketDeviceId, socketRoomId, socketIsWebClient,
                    connectedESP32Devices, webClients, serverVars, queueVars, busVars, extVars>>

\* Booking.findByQRCode
FindByQRCode(qrCode) == {b \in DOMAIN bookings : bookings[b].qr_code = qrCode}

\* start_time - 15 minutes
EarlyAccessTime(b) == bookings[b].start_time - EarlyAccessMs

\* qrService.validateQRCode: success and message of the result
QrOutcome(token) ==
    IF token.format = "legacy"
    THEN IF FindByQRCode(token.qr_code) # {}
         THEN [success |-> TRUE, message |-> ""]
         ELSE [success |-> FALSE, message |-> "Invalid QR code or booking not found"]
    ELSE IF token.type # "booking"
    THEN [success |-> FALSE, message |-> "Invalid QR code type"]
    ELSE IF token.booking_id \notin DOMAIN bookings
    THEN [success |-> FALSE, message |-> "Booking not found"]
    ELSE IF bookings[token.booking_id].qr_code # token.qr_code
    THEN [success |-> FALSE, message |-> "QR code mismatch"]
    ELSE IF now < EarlyAccessTime(token.booking_id)
    THEN [success |-> FALSE, message |-> "Too early for this booking"]
    ELSE IF now > bookings[token.booking_id].end_time
    THEN [success |-> FALSE, message |-> "Booking has expired"]
    ELSE IF bookings[token.booking_id].status \notin {"pending", "confirmed"}
    THEN [success |-> FALSE, message |-> "Booking is " \o bookings[token.booking_id].status]
    ELSE [success |-> TRUE, message |-> ""]

\* the booking a token is the credential of, if any
TokenBooking(token) ==
    {b \in FindByQRCode(token.qr_code) :
        token.format = "json" => (token.type = "booking" /\ token.booking_id = b)}

ValidateQRCode(token) ==
    /\ qrResult' = [scanned |-> TRUE, token |-> token, at |-> now,
                    status |-> IF TokenBooking(token) # {}
                               THEN bookings[CHOOSE b \in TokenBooking(token) : TRUE].status
                               ELSE "",
                    success |-> QrOutcome(token).success,
                    message |-> QrOutcome(token).message]
    /\ UNCHANGED <<now, emitted, bookings, issued, notBookingVars>>

\* websocketService.sendCommandToDevice for one command of a booking handler
Issue(deviceId, command, actuator, action) ==
    [deviceId |-> deviceId, command |-> command, actuator |-> actuator,
     action |-> action, socketId |-> TargetSocket(deviceId),
     success |-> TargetSocket(deviceId) # 0]

\* sendActuatorCommand
ActuatorCommand(roomId, actuator, action) ==
    Issue(RoomEsp32Id(roomId), "ACTUATOR_CONTROL", actuator, action)

\* updateRoomDisplay
DisplayCommand(roomId, status) ==
    Issue(DisplayDeviceId(RoomEsp32Id(roomId)), "DISPLAY_UPDATE", "display", status)

\* the socket emits of a handler: a 'command' per command that found a socket,
\* then the broadcast of the event to every connected socket
RECURSIVE CommandEmits(_)
CommandEmits(cmds) ==
    IF cmds = <<>> THEN <<>>
    ELSE (IF Head(cmds).success
          THEN << Emit(Head(cmds).socketId, "command", Head(cmds).deviceId, Head(cmds).actuator) >>
          ELSE <<>>) \o CommandEmits(Tail(cmds))

HandlerEmits(cmds, event) == CommandEmits(cmds) \o << IoEmit(event, "") >>

\* websocketService.startMeeting
StartMeeting(b) ==
    /\ b \in DOMAIN bookings
    /\ bookings' = [bookings EXCEPT ![b].status = "active"]
    /\ issued' = << ActuatorCommand(bookings[b].room_id, "light", "on"),
                    ActuatorCommand(bookings[b].room_id, "ac", "on"),
                    ActuatorCommand(bookings[b].room_id, "outlets", "on"),
                    ActuatorCommand(bookings[b].room_id, "door", "unlock"),
                    DisplayCommand(bookings[b].room_id, "meeting_active"),
                    ActuatorCommand(bookings[b].room_id, "buzzer", "welcome") >>
    /\ emitted' = HandlerEmits(issued', "meeting_started")
    /\ UNCHANGED <<now, qrResult, notBookingVars>>

\* websocketService.endMeeting
EndMeeting(b) ==
    /\ b \in DOMAIN bookings
    /\ bookings' = [bookings EXCEPT ![b].status = "completed"]
    /\ issued' = << ActuatorCommand(bookings[b].room_id, "light", "off"),
                    ActuatorCommand(bookings[b].room_id, "ac", "off"),
                    ActuatorCommand(bookings[b].room_id, "outlets", "off"),
                    ActuatorCommand(bookings[b].room_id, "door", "lock"),
                    DisplayCommand(bookings[b].room_id, "available"),
                    ActuatorCommand(bookings[b].room_id, "buzzer", "goodbye") >>
    /\ emitted' = HandlerEmits(issued', "meeting_ended")
    /\ UNCHANGED <<now, qrResult, notBookingVars>>

\* Room.getCurrentBooking: the rows the query selects
CurrentBookings(roomId) ==
    {b \in DOMAIN bookings :
        /\ bookings[b].room_id = roomId
        /\ bookings[b].status = "active"
        /\ bookings[b].start_time <= now
        /\ bookings[b].end_time > now}

\* websocketService.emergencyShutdown
EmergencyShutdown(roomId) ==
    /\ issued' = << ActuatorCommand(roomId, "light", "off"),
                    ActuatorCommand(roomId, "ac", "off"),
                    ActuatorCommand(roomId, "outlets", "off"),
                    ActuatorCommand(roomId, "door", "unlock"),
                    ActuatorCommand(roomId, "buzzer", "emergency"),
                    DisplayCommand(roomId, "emergency") >>
    /\ bookings' =
         IF CurrentBookings(roomId) # {}
         THEN LET current == CHOOSE b \in CurrentBookings(roomId) :
                                \A c \in CurrentBookings(roomId) :
                                    bookings[b].start_time <= bookings[c].start_time
              IN [bookings EXCEPT ![current].status = "cancelled"]
         ELSE bookings
    /\ emitted' = HandlerEmits(issued', "emergency_alert")
    /\ UNCHANGED <<now, qrResult, notBookingVars>>

\* the codes a reader scans: the code of booking b1 and an unknown one
ScanCodes == {"qr1", "qr9"}

\* the commands startMeeting sends for a room, in the order of its awaits
StartMeetingCommands(roomId) ==
    << ActuatorCommand(roomId, "light", "on"),
       ActuatorCommand(roomId, "ac", "on"),
       ActuatorCommand(roomId, "outlets", "on"),
       ActuatorCommand(roomId, "door", "unlock"),
       DisplayCommand(roomId, "meeting_active"),
       ActuatorCommand(roomId, "buzzer", "welcome") >>

\* esp32Service.sendESP32Response
ESP32Response(deviceId, responseType) == Issue(deviceId, responseType, "", "")

\* esp32Service.handleRFIDScan: the booking found by the code is started,
\* whatever its status and the time, and the reader is answered
HandleRFIDScan(deviceId, rfidId) ==
    /\ IF FindByQRCode(rfidId) # {}
       THEN LET b == CHOOSE x \in FindByQRCode(rfidId) : TRUE
            IN /\ bookings' = [bookings EXCEPT ![b].status = "active"]
               /\ issued' = StartMeetingCommands(bookings[b].room_id)
                               \o << ESP32Response(deviceId, "RFID_VALIDATED") >>
               /\ emitted' = HandlerEmits(StartMeetingCommands(bookings[b].room_id),
                                          "meeting_started")
                               \o CommandEmits(<< ESP32Response(deviceId, "RFID_VALIDATED") >>)
       ELSE /\ bookings' = bookings
            /\ issued' = << ESP32Response(deviceId, "RFID_REJECTED") >>
            /\ emitted' = CommandEmits(issued')
    /\ UNCHANGED <<now, qrResult, notBookingVars>>

\* the commands of a handler that drive an actuator or the display of a room
RoomCommands(cmds) ==
    SelectSeq(cmds, LAMBDA c : c.command \in {"ACTUATOR_CONTROL", "DISPLAY_UPDATE"})

Statuses == {"pending", "confirmed", "active", "completed", "cancelled"}

\* bookingController.updateBookingStatus with a valid status: booking.updateStatus
UpdateBookingStatus(b, status) ==
    /\ b \in DOMAIN bookings
    /\ status \in Statuses
    /\ bookings' = [bookings EXCEPT ![b].status = status]
    /\ issued' = <<>>
    /\ emitted' = <<>>
    /\ UNCHANGED <<now, qrResult, notBookingVars>>

\* bookingController.confirmBooking: booking.confirm()
ConfirmBooking(b) ==
    /\ b \in DOMAIN bookings
    /\ bookings' = [bookings EXCEPT ![b].status = "confirmed"]
    /\ issued' = <<>>
    /\ emitted' = <<>>
    /\ UNCHANGED <<now, qrResult, notBookingVars>>

\* bookingController.cancelBooking: booking.cancel()
CancelBooking(b) ==
    /\ b \in DOMAIN bookings
    /\ bookings' = [bookings EXCEPT ![b].status = "cancelled"]
    /\ issued' = <<>>
    /\ emitted' = <<>>
    /\ UNCHANGED <<now, qrResult, notBookingVars>>

\* the commands emergencyShutdown sends for a room, in the order of its awaits
EmergencyCommands(roomId) ==
    << ActuatorCommand(roomId, "light", "off"),
       ActuatorCommand(roomId, "ac", "off"),
       ActuatorCommand(roomId, "outlets", "off"),
       ActuatorCommand(roomId, "door", "unlock"),
       ActuatorCommand(roomId, "buzzer", "emergency"),
       DisplayCommand(roomId, "emergency") >>

\* the awaits of emergencyShutdown that reject when the database fails
EmergencyFailures == {"Room.findById", "getCurrentBooking", "updateStatus", "logSystemEvent"}

\* websocketService.emergencyShutdown when one of its awaits rejects: the
\* catch returns 'Emergency shutdown failed' and what follows the await is
\* not done
EmergencyShutdownFailing(roomId, failure) ==
    /\ failure \in EmergencyFailures
    /\ failure = "updateStatus" => CurrentBookings(roomId) # {}
    /\ issued' = IF failure \in {"Room.findById", "getCurrentBooking"} THEN <<>>
                 ELSE EmergencyCommands(roomId)
    /\ bookings' =
         IF failure = "logSystemEvent" /\ CurrentBookings(roomId) # {}
         THEN LET current == CHOOSE b \in CurrentBookings(roomId) :
                                \A c \in CurrentBookings(roomId) :
                                    bookings[b].start_time <= bookings[c].start_time
              IN [bookings EXCEPT ![current].status = "cancelled"]
         ELSE bookings
    /\ emitted' = CommandEmits(issued')
    /\ UNCHANGED <<now, qrResult, notBookingVars>>

\* Booking.getActiveBookings: the rows the query selects
ActiveBookings ==
    {b \in DOMAIN bookings :
        /\ bookings[b].status = "active"
        /\ bookings[b].start_time <= now
        /\ bookings[b].end_time > now}

\* startAutomaticUpdates: the body of the one-minute interval refreshes the
\* display of every room with an active booking
AutomaticUpdates ==
    /\ issued' = [i \in 1..Cardinality(ActiveBookings) |->
                    DisplayCommand(bookings[SeqOfSet(ActiveBookings)[i]].room_id,
                                   "meeting_active")]
    /\ emitted' = CommandEmits(issued')
    /\ UNCHANGED <<now, bookings, qrResult, notBookingVars>>

\* Room.getUpcomingBookings: the rows the query selects
UpcomingBookings(roomId) ==
    {b \in DOMAIN bookings :
        /\ bookings[b].room_id = roomId
        /\ bookings[b].status \in {"pending", "confirmed"}
        /\ bookings[b].start_time > now}

\* Math.abs(now - startTime)
Abs(x) == IF x < 0 THEN -x ELSE x

\* esp32Service.handleButtonPress of a manual_start button: handleManualStart
\* on the first upcoming booking of the room, then the answer to the device
HandleManualStart(deviceId, roomId) ==
    /\ IF /\ UpcomingBookings(roomId) # {}
          /\ LET b == CHOOSE x \in UpcomingBookings(roomId) :
                         \A y \in UpcomingBookings(roomId) :
                             bookings[x].start_time <= bookings[y].start_time
             IN Abs(now - bookings[b].start_time) <= EarlyAccessMs
       THEN LET b == CHOOSE x \in UpcomingBookings(roomId) :
                         \A y \in UpcomingBookings(roomId) :
                             bookings[x].start_time <= bookings[y].start_time
            IN /\ bookings' = [bookings EXCEPT ![b].status = "active"]
               /\ issued' = StartMeetingCommands(roomId)
                               \o << ESP32Response(deviceId, "BUTTON_RESPONSE") >>
               /\ emitted' = HandlerEmits(StartMeetingCommands(roomId), "meeting_started")
                               \o CommandEmits(<< ESP32Response(deviceId, "BUTTON_RESPONSE") >>)
       ELSE /\ bookings' = bookings
            /\ issued' = << ESP32Response(deviceId, "BUTTON_RESPONSE") >>
            /\ emitted' = CommandEmits(issued')
    /\ UNCHANGED <<now, qrResult, notBookingVars>>

\* the commands endMeeting sends for a room, in the order of its awaits
EndMeetingCommands(roomId) ==
    << ActuatorCommand(roomId, "light", "off"),
       ActuatorCommand(roomId, "ac", "off"),
       ActuatorCommand(roomId, "outlets", "off"),
       ActuatorCommand(roomId, "door", "lock"),
       DisplayCommand(roomId, "available"),
       ActuatorCommand(roomId, "buzzer", "goodbye") >>

\* esp32Service.handleButtonPress of a manual_end button: handleManualEnd on
\* the current booking of the room, then the answer to the device
HandleManualEnd(deviceId, roomId) ==
    /\ IF CurrentBookings(roomId) # {}
       THEN LET b == CHOOSE x \in CurrentBookings(roomId) :
                         \A y \in CurrentBookings(roomId) :
                             bookings[x].start_time <= bookings[y].start_time
            IN /\ bookings' = [bookings EXCEPT ![b].status = "completed"]
               /\ issued' = EndMeetingCommands(roomId)
                               \o << ESP32Response(deviceId, "BUTTON_RESPONSE") >>
               /\ emitted' = HandlerEmits(EndMeetingCommands(roomId), "meeting_ended")
                               \o CommandEmits(<< ESP32Response(deviceId, "BUTTON_RESPONSE") >>)
       ELSE /\ bookings' = bookings
            /\ issued' = << ESP32Response(deviceId, "BUTTON_RESPONSE") >>
            /\ emitted' = CommandEmits(issued')
    /\ UNCHANGED <<now, qrResult, notBookingVars>>

\* the clock moves on to a later instant
BookingClock ==
    /\ now' \in TimePoints
    /\ now' > now
    /\ UNCHANGED <<emitted, bookingVars, notBookingVars>>

\* the booking handlers are followed with one connection, that of the gateway
\* of the room, present or not
BookingSockets == {1}

NextBooking ==
    \/ \E s \in BookingSockets : Connection(s)
    \/ \E s \in BookingSockets, d \in RegDevices, r \in RegRooms : Esp32Register(s, d, r)
    \/ \E s \in BookingSockets : Disconnect(s)
    \/ \E token \in Tokens : ValidateQRCode(token)
    \/ \E b \in BookingIds : StartMeeting(b)
    \/ \E b \in BookingIds : EndMeeting(b)
    \/ \E r \in RegRooms : EmergencyShutdown(r)
    \/ \E d \in RegDevices, code \in ScanCodes : HandleRFIDScan(d, code)
    \/ \E b \in BookingIds, status \in Statuses : UpdateBookingStatus(b, status)
    \/ \E b \in BookingIds : ConfirmBooking(b)
    \/ \E b \in BookingIds : CancelBooking(b)
    \/ \E r \in RegRooms, failure \in EmergencyFailures : EmergencyShutdownFailing(r, failure)
    \/ \E d \in RegDevices, r \in RegRooms : HandleManualStart(d, r)
    \/ \E d \in RegDevices, r \in RegRooms : HandleManualEnd(d, r)
    \/ BookingClock

\* the scheduled work of the backend next to the requests that start and end
\* a meeting
NextUpdates ==
    \/ \E s \in BookingSockets : Connection(s)
    \/ \E s \in BookingSockets, d \in RegDevices, r \in RegRooms : Esp32Register(s, d, r)
    \/ \E s \in BookingSockets : Disconnect(s)
    \/ \E b \in BookingIds : StartMeeting(b)
    \/ \E b \in BookingIds : EndMeeting(b)
    \/ AutomaticUpdates
    \/ BookingClock

\* C5: an emergency trigger on a room with a booking in status active moves
\* that booking to cancelled, issues the door unlock, and broadcasts the
\* emergency alert to every connected observer, the device online or not.
C5_EmergencyCancelsActive ==
    [][ \A r \in RegRooms : EmergencyShutdown(r) =>
          /\ \A b \in DOMAIN bookings :
                (bookings[b].room_id = r /\ bookings[b].status = "active")
                    => bookings'[b].status = "cancelled"
          /\ \E i \in 1..Len(issued') :
                issued'[i].actuator = "door" /\ issued'[i].action = "unlock"
          /\ \E i \in 1..Len(emitted') :
                emitted'[i].event = "emergency_alert" /\ emitted'[i].to = OpenSockets ]_vars

\* C6: with a booking from T to T + 3600 s, the scan of its credential is
\* rejected as too early at T - 16 min, accepted at T - 14 min when the status
\* is pending or confirmed, and rejected as expired at T + 3601 s.
C6_ScanWindow ==
    (qrResult.scanned /\ TokenBooking(qrResult.token) # {}) =>
        /\ qrResult.at = ScanTooEarly =>
              (~qrResult.success /\ qrResult.message = "Too early for this booking")
        /\ (qrResult.at = ScanInWindow /\ qrResult.status \in {"pending", "confirmed"}) =>
              qrResult.success
        /\ qrResult.at = ScanExpired =>
              (~qrResult.success /\ qrResult.message = "Booking has expired")

\* C11: a scan whose code matches no booking, or matches a booking whose
\* status is not pending or confirmed, is rejected: the booking is not
\* activated and no actuator command is issued.
C11_BadScanRejected ==
    [][ \A d \in RegDevices, code \in ScanCodes :
          ( /\ HandleRFIDScan(d, code)
            /\ \/ FindByQRCode(code) = {}
               \/ \E b \in FindByQRCode(code) :
                     bookings[b].status \notin {"pending", "confirmed"} )
          => /\ bookings' = bookings
             /\ RoomCommands(issued') = <<>>
             /\ \E i \in 1..Len(issued') : issued'[i].command = "RFID_REJECTED" ]_vars

\* C12: a start of a meeting at a time outside the access window of the
\* booking (before start - 15 min, or from the end on) is refused: the status
\* of the booking is left unchanged and no actuator command is issued.
C12_StartOutsideWindowRefused ==
    [][ \A b \in BookingIds :
          ( /\ StartMeeting(b)
            /\ \/ now < EarlyAccessTime(b)
               \/ now >= bookings[b].end_time )
          => /\ bookings' = bookings
             /\ RoomCommands(issued') = <<>> ]_vars

\* C13: the window of a booking is half-open at its end: the scan of its
\* structured credential, the status being pending or confirmed, is accepted
\* exactly at the times t with start - 15 min <= t < end, and at t = end it is
\* rejected as expired.
C13_WindowHalfOpen ==
    ( /\ qrResult.scanned
      /\ qrResult.token.format = "json"
      /\ TokenBooking(qrResult.token) # {}
      /\ qrResult.status \in {"pending", "confirmed"} )
    => /\ qrResult.success <=>
             (BookingStart - EarlyAccessMs <= qrResult.at /\ qrResult.at < BookingEnd)
       /\ qrResult.at = BookingEnd =>
             (~qrResult.success /\ qrResult.message = "Booking has expired")

\* C14: the status of a booking moves only along pending, confirmed, active,
\* completed, or to cancelled from a status that is not terminal; in
\* particular, shown here, a booking that is completed or cancelled never
\* changes status again, whatever update, start, end or scan follows.
C14_TerminalStatusFinal ==
    [][ \A b \in DOMAIN bookings :
          bookings[b].status \in {"completed", "cancelled"}
             => bookings'[b].status = bookings[b].status ]_vars

\* the actuator and the action of each command of a handler, in order
CommandSteps(cmds) == [i \in 1..Len(cmds) |-> <<cmds[i].actuator, cmds[i].action>>]

\* C15: when a booking goes from confirmed to active the commands are issued
\* in the order door unlock, lights on, outlets on, display update, buzzer
\* (the AC command, which the order does not name, left aside).
C15_StartOrder ==
    [][ \A b \in BookingIds :
          (StartMeeting(b) /\ bookings[b].status = "confirmed")
          => CommandSteps(SelectSeq(RoomCommands(issued'), LAMBDA c : c.actuator # "ac"))
                = << <<"door", "unlock">>, <<"light", "on">>, <<"outlets", "on">>,
                     <<"display", "meeting_active">>, <<"buzzer", "welcome">> >> ]_vars

\* C16: when a booking goes from active to completed the commands are issued
\* in the order door lock, lights off, AC off, outlets off, display available,
\* goodbye buzzer.
C16_EndOrder ==
    [][ \A b \in BookingIds :
          (EndMeeting(b) /\ bookings[b].status = "active")
          => CommandSteps(RoomCommands(issued'))
                = << <<"door", "lock">>, <<"light", "off">>, <<"ac", "off">>,
                     <<"outlets", "off">>, <<"display", "available">>,
                     <<"buzzer", "goodbye">> >> ]_vars

\* C17: cancelling a booking in status active issues the shutdown commands of
\* the end of a meeting (door lock, lights off, AC off, outlets off, display
\* available); cancelling a booking in another status issues no command.
C17_CancelActiveShutsDown ==
    [][ \A b \in BookingIds : CancelBooking(b) =>
          IF bookings[b].status = "active"
          THEN \A step \in { <<"door", "lock">>, <<"light", "off">>, <<"ac", "off">>,
                             <<"outlets", "off">>, <<"display", "available">> } :
                  \E i \in 1..Len(issued') : CommandSteps(issued')[i] = step
          ELSE RoomCommands(issued') = <<>> ]_vars

\* C18: an emergency trigger never fails outward: when the room lookup, the
\* lookup of the current booking, the status update or the event logging
\* fails, the door unlock is still attempted, the current active booking of
\* the room is cancelled and the emergency alert is broadcast.
C18_EmergencyNeverFails ==
    [][ \A r \in RegRooms, failure \in EmergencyFailures :
          EmergencyShutdownFailing(r, failure) =>
             /\ \E i \in 1..Len(issued') : CommandSteps(issued')[i] = <<"door", "unlock">>
             /\ \A b \in CurrentBookings(r) : bookings'[b].status = "cancelled"
             /\ \E i \in 1..Len(emitted') : emitted'[i].event = "emergency_alert" ]_vars

\* C19: an emergency trigger does not force the lights off: it issues the
\* door unlock, AC off, the emergency buzzer and the emergency display, and
\* no lights-off command.
C19_EmergencyKeepsLights ==
    [][ \A r \in RegRooms : EmergencyShutdown(r) =>
          /\ \A step \in { <<"door", "unlock">>, <<"ac", "off">>,
                           <<"buzzer", "emergency">>, <<"display", "emergency">> } :
                \E i \in 1..Len(issued') : CommandSteps(issued')[i] = step
          /\ \A i \in 1..Len(issued') : CommandSteps(issued')[i] # <<"light", "off">> ]_vars

\* C26: every booking in status active whose end time has passed is
\* eventually moved to completed by the scheduled work of the backend.
C26_ExpiredEventuallyCompleted ==
    \A b \in BookingIds :
        (bookings[b].status = "active" /\ now > bookings[b].end_time)
        ~> (bookings[b].status = "completed")

\* C32: a manual_end button press in a room with a booking in status active
\* ends that booking (status completed, door lock issued), whatever the time
\* is relative to the start and end times of the booking.
C32_ManualEndEndsActive ==
    [][ \A d \in RegDevices, r \in RegRooms :
          HandleManualEnd(d, r)
          => \A b \in DOMAIN bookings :
                (bookings[b].room_id = r /\ bookings[b].status = "active")
                => /\ bookings'[b].status = "completed"
                   /\ \E i \in 1..Len(issued') :
                         issued'[i].actuator = "door" /\ issued'[i].action = "lock" ]_vars

\* the bookings a manual start may take: pending or confirmed, of the room,
\* with a start time at most 15 minutes away, before or after
ManualStartCandidates(roomId) ==
    {b \in DOMAIN bookings :
        /\ bookings[b].room_id = roomId
        /\ bookings[b].status \in {"pending", "confirmed"}
        /\ Abs(now - bookings[b].start_time) <= EarlyAccessMs}

\* C28: a manual_start button press starts the pending or confirmed booking
\* of the room exactly when the time is within 15 minutes of its start,
\* before or after it; otherwise no booking changes and no actuator or
\* display command is issued.
C28_ManualStartWindow ==
    [][ \A d \in RegDevices, r \in RegRooms :
          HandleManualStart(d, r)
          => IF ManualStartCandidates(r) # {}
             THEN \E b \in ManualStartCandidates(r) : bookings'[b].status = "active"
             ELSE bookings' = bookings /\ RoomCommands(issued') = <<>> ]_vars

(***************************************************************************)
(* bookingController: createBooking and updateBooking check for a conflict *)
(* and then save; the two awaits of a request may be apart.                *)
(***************************************************************************)
Requests == 1..MaxRequests
\* the hours at which the bookings asked for start and end
SlotTimes == 1..MaxSlotTime
Slots == {slot \in SlotTimes \X SlotTimes : slot[1] < slot[2]}
NoRequest == [pc |-> "idle", kind |-> "", id |-> 0, start_time |-> 0, end_time |-> 0]

notCalendarVars == <<registryVars, serverVars, queueVars, bookingVars, busVars,
                     gatewayVars, displayVars>>

InitCalendar ==
    /\ calRows = <<>>
    /\ calRequests = [r \in Requests |-> NoRequest]

\* Booking.checkConflict: the rows the COUNT query counts
CheckConflict(roomId, startTime, endTime, excludeBookingId) ==
    \E id \in 1..Len(calRows) :
        /\ calRows[id].room_id = roomId
        /\ calRows[id].status \in {"pending", "confirmed", "active"}
        /\ \/ (calRows[id].start_time <= startTime /\ calRows[id].end_time > startTime)
           \/ (calRows[id].start_time < endTime /\ calRows[id].end_time >= endTime)
           \/ (calRows[id].start_time >= startTime /\ calRows[id].start_time < endTime)
        /\ id # excludeBookingId

\* createBooking up to the answer of checkConflict: 409 on a conflict
CreateBookingCheck(r, roomId, startTime, endTime) ==
    /\ calRequests[r].pc = "idle"
    /\ startTime < endTime
    /\ calRequests' = [calRequests EXCEPT ![r] =
                          [pc |-> IF CheckConflict(roomId, startTime, endTime, 0)
                                  THEN "refused" ELSE "checked",
                           kind |-> "create", id |-> 0,
                           start_time |-> startTime, end_time |-> endTime]]
    /\ UNCHANGED <<calRows, notCalendarVars>>

\* createBooking from new Booking(...) on: booking.save() inserts the row
CreateBookingSave(r, roomId) ==
    /\ calRequests[r].pc = "checked"
    /\ calRequests[r].kind = "create"
    /\ calRows' = Append(calRows, [room_id |-> roomId, status |-> "pending",
                                   start_time |-> calRequests[r].start_time,
                                   end_time |-> calRequests[r].end_time])
    /\ calRequests' = [calRequests EXCEPT ![r].pc = "saved", ![r].id = Len(calRows) + 1]
    /\ UNCHANGED notCalendarVars

\* updateBooking with new times up to the answer of checkConflict
UpdateBookingCheck(r, id, startTime, endTime) ==
    /\ calRequests[r].pc = "idle"
    /\ id \in 1..Len(calRows)
    /\ startTime < endTime
    /\ calRequests' = [calRequests EXCEPT ![r] =
                          [pc |-> IF CheckConflict(calRows[id].room_id, startTime, endTime, id)
                                  THEN "refused" ELSE "checked",
                           kind |-> "update", id |-> id,
                           start_time |-> startTime, end_time |-> endTime]]
    /\ UNCHANGED <<calRows, notCalendarVars>>

\* updateBooking from Object.assign on: booking.save() rewrites the row
UpdateBookingSave(r) ==
    /\ calRequests[r].pc = "checked"
    /\ calRequests[r].kind = "update"
    /\ calRows' = [calRows EXCEPT ![calRequests[r].id].start_time = calRequests[r].start_time,
                                  ![calRequests[r].id].end_time = calRequests[r].end_time]
    /\ calRequests' = [calRequests EXCEPT ![r].pc = "saved"]
    /\ UNCHANGED notCalendarVars

NextCalendar ==
    \/ \E r \in Requests, room \in RegRooms, slot \in Slots :
          CreateBookingCheck(r, room, slot[1], slot[2])
    \/ \E r \in Requests, room \in RegRooms : CreateBookingSave(r, room)
    \/ \E r \in Requests, id \in Requests, slot \in Slots :
          UpdateBookingCheck(r, id, slot[1], slot[2])
    \/ \E r \in Requests : UpdateBookingSave(r)

\* two rows take the room at a common instant
Overlap(a, b) == a.start_time < b.end_time /\ b.start_time < a.end_time

\* C34: no two bookings of the same room that are both pending, confirmed or
\* active overlap in time, however the create and update requests interleave.
C34_NoOverlap ==
    \A i, j \in 1..Len(calRows) :
        ( /\ i # j
          /\ calRows[i].room_id = calRows[j].room_id
          /\ calRows[i].status \in {"pending", "confirmed", "active"}
          /\ calRows[j].status \in {"pending", "confirmed", "active"} )
        => ~Overlap(calRows[i], calRows[j])

(***************************************************************************)
(* Firmware: the RS485 line protocol TARGET;TYPE;PAYLOAD\n and the bus.    *)
(* A String is a sequence of one-character strings.                        *)
(***************************************************************************)
Nodes == {"A", "B", "C"}
Semicolon == ";"
Newline == "\n"
\* isspace(), as String::trim() uses it
Whitespace == {" ", "\t", "\n", "\r"}
\* the characters of the frames given to the encoder
Alphabet == {"B", Semicolon, Newline, " "}

NoFrame == [ok |-> FALSE, frame |-> <<>>]

notBusVars == <<registryVars, serverVars, queueVars, bookingVars, extVars>>

StringsUpTo(n) == UNION {[1..k -> Alphabet] : k \in 0..n}

SetMin(S) == CHOOSE x \in S : \A y \in S : x <= y
SetMax(S) == CHOOSE x \in S : \A y \in S : x >= y

\* String::indexOf(ch, from), positions from 1, 0 when there is none
IndexOf(str, ch, from) ==
    LET found == {i \in from..Len(str) : str[i] = ch}
    IN IF found = {} THEN 0 ELSE SetMin(found)

\* Stream::readStringUntil(terminator): the terminator is read and dropped
ReadStringUntil(buf, terminator) ==
    IF IndexOf(buf, terminator, 1) = 0 THEN buf
    ELSE SubSeq(buf, 1, IndexOf(buf, terminator, 1) - 1)

\* what stays in the receive buffer after readStringUntil
AfterReadStringUntil(buf, terminator) ==
    IF IndexOf(buf, terminator, 1) = 0 THEN <<>>
    ELSE SubSeq(buf, IndexOf(buf, terminator, 1) + 1, Len(buf))

\* a trim that removes the whitespace wherever it is
TrimEverywhere(str) == SelectSeq(str, LAMBDA c : c \notin Whitespace)

\* String::trim(): leading and trailing whitespace removed
Trim(str) ==
    LET solid == {i \in 1..Len(str) : str[i] \notin Whitespace}
    IN IF solid = {} THEN <<>> ELSE SubSeq(str, SetMin(solid), SetMax(solid))

\* sendRS485Message(target, type, payload) of the sensor and display nodes:
\* the line printed
EncodeFrame(target, type, payload) ==
    target \o <<Semicolon>> \o type \o <<Semicolon>> \o payload \o <<Newline>>

\* the two separators a parser looks for
FirstSemi(message) == IndexOf(message, Semicolon, 1)
SecondSemi(message) ==
    IF FirstSemi(message) = 0 THEN 0 ELSE IndexOf(message, Semicolon, FirstSemi(message) + 1)

\* the three fields, given both separators
Fields(message) ==
    << SubSeq(message, 1, FirstSemi(message) - 1),
       SubSeq(message, FirstSemi(message) + 1, SecondSemi(message) - 1),
       SubSeq(message, SecondSemi(message) + 1, Len(message)) >>

\* gateway parseRS485Message: SOURCE;EVENT;DATA from any source
ParseRS485Message(message) ==
    IF FirstSemi(message) = 0 \/ SecondSemi(message) = 0 THEN NoFrame
    ELSE [ok |-> TRUE, frame |-> Fields(message)]

\* handleRS485Message of the sensor node B and the display node C
HandleRS485Message(message, self) ==
    IF FirstSemi(message) = 0 \/ SecondSemi(message) = 0 THEN NoFrame
    ELSE IF Fields(message)[1] # <<self>> THEN NoFrame
    ELSE [ok |-> TRUE, frame |-> Fields(message)]

\* parseRS485Message of the optimized sensor and display firmware: only the
\* first separator is required, the command runs to the end of the line when
\* there is no second one, and the acknowledgment is always sent
ParseRS485MessageOptimized(message, self) ==
    IF FirstSemi(message) = 0 THEN NoFrame
    ELSE IF SubSeq(message, 1, FirstSemi(message) - 1) # <<self>> THEN NoFrame
    ELSE [ok |-> TRUE,
          frame |-> << SubSeq(message, 1, FirstSemi(message) - 1),
                       SubSeq(message, FirstSemi(message) + 1,
                              IF SecondSemi(message) # 0 THEN SecondSemi(message) - 1
                              ELSE Len(message)),
                       IF SecondSemi(message) # 0
                       THEN SubSeq(message, SecondSemi(message) + 1, Len(message))
                       ELSE <<>> >>]

\* handleRS485 of the optimized firmware of node n
DecodeLineOptimized(n, buf) ==
    LET message == Trim(ReadStringUntil(buf, Newline))
    IN IF Len(message) = 0 THEN NoFrame
       ELSE ParseRS485MessageOptimized(message, n)

\* handleRS485 / checkRS485Messages of node n on its receive buffer
DecodeLine(n, buf) ==
    LET message == Trim(ReadStringUntil(buf, Newline))
    IN IF Len(message) = 0 THEN NoFrame
       ELSE IF n = "A" THEN ParseRS485Message(message)
       ELSE HandleRS485Message(message, n)

\* a node is given (target, type, payload) to send
CodecEncode(target, type, payload) ==
    /\ codecInput = <<>>
    /\ codecInput' = <<target, type, payload>>
    /\ codecLine' = EncodeFrame(target, type, payload)
    /\ UNCHANGED <<codecDecoded, wireVars, notBusVars>>

\* node n receives the line and decodes it
CodecReceive(n) ==
    /\ codecLine # <<>>
    /\ codecDecoded.node = ""
    /\ codecDecoded' = [node |-> n, ok |-> DecodeLine(n, codecLine).ok,
                        frame |-> DecodeLine(n, codecLine).frame]
    /\ UNCHANGED <<codecInput, codecLine, wireVars, notBusVars>>

\* node n running the optimized firmware receives the line and decodes it
CodecReceiveOptimized(n) ==
    /\ codecLine # <<>>
    /\ codecDecoded.node = ""
    /\ codecDecoded' = [node |-> n, ok |-> DecodeLineOptimized(n, codecLine).ok,
                        frame |-> DecodeLineOptimized(n, codecLine).frame]
    /\ UNCHANGED <<codecInput, codecLine, wireVars, notBusVars>>

NextCodec ==
    \/ \E t \in StringsUpTo(MaxTargetLen), m \in StringsUpTo(MaxTypeLen),
          p \in StringsUpTo(MaxPayloadLen) : CodecEncode(t, m, p)
    \/ \E n \in {"A", "B"} : CodecReceive(n)
    \/ \E n \in {"B"} : CodecReceiveOptimized(n)

Has(str, ch) == \E i \in 1..Len(str) : str[i] = ch

\* the line was read by a node it is addressed to: the gateway takes every
\* line, node B the lines whose target is B
Addressed == codecDecoded.node = "A" \/ codecInput[1] = <<codecDecoded.node>>

\* C7 (as stated): when target and type hold no ';' and the payload holds
\* neither ';' nor a newline, the node that receives the encoded line decodes
\* exactly (target, type, payload).
C7_RoundTrip ==
    ( /\ codecDecoded.node # ""
      /\ Addressed
      /\ ~Has(codecInput[1], Semicolon) /\ ~Has(codecInput[2], Semicolon)
      /\ ~Has(codecInput[3], Semicolon) /\ ~Has(codecInput[3], Newline) )
    => (codecDecoded.ok /\ codecDecoded.frame = codecInput)

\* the frames that go through the line reader unchanged: no separator and no
\* newline in any field, no whitespace at the start of the target or at the
\* end of the payload
RoundTripValid(frame) ==
    /\ \A k \in 1..3 : ~Has(frame[k], Semicolon) /\ ~Has(frame[k], Newline)
    /\ frame[1] # <<>> => frame[1][1] \notin Whitespace
    /\ frame[3] # <<>> => frame[3][Len(frame[3])] \notin Whitespace

\* C7 (amended): when no field holds ';' or a newline, the target does not
\* start with whitespace and the payload does not end with whitespace, the
\* node that receives the encoded line decodes exactly (target, type, payload).
C7_RoundTripTrimmed ==
    (codecDecoded.node # "" /\ Addressed /\ RoundTripValid(codecInput))
    => (codecDecoded.ok /\ codecDecoded.frame = codecInput)

\* a payload with whitespace inside went through the round trip
C7_Witness ==
    /\ codecDecoded.node = "B"
    /\ Addressed
    /\ RoundTripValid(codecInput)
    /\ codecInput[3] = <<" ", "B">>
    /\ codecDecoded.frame = codecInput

\* the line a node takes from the bus: up to the newline, trimmed
LineRead == Trim(ReadStringUntil(codecLine, Newline))

\* C22: on every node, a bus line with fewer than two ';' separators is
\* dropped as malformed: no command handler runs and no acknowledgment is
\* sent (the decode is not ok).
C22_ShortLineDropped ==
    (codecDecoded.node # "" /\ SecondSemi(LineRead) = 0) => ~codecDecoded.ok

\* C23: a node that decodes a well-formed frame whose target is not its own
\* bus address takes it as not for this node: no command runs, nothing is
\* acknowledged and nothing is forwarded upstream (the decode is not ok).
C23_ForeignFrameIgnored ==
    ( /\ codecDecoded.node # ""
      /\ SecondSemi(LineRead) # 0
      /\ Fields(LineRead)[1] # <<codecDecoded.node>> )
    => ~codecDecoded.ok

(***************************************************************************)
(* The gateway and its peripherals: the frames the gateway sends, what the *)
(* peripherals answer, and what the gateway makes of the frames it gets.   *)
(* A word without separator is kept as one element of the String.          *)
(***************************************************************************)
\* doc["params"] when the command message holds no params
Null == "null"
Peripherals == {"B", "C"}
Firmwares == {"plain", "optimized"}
GwCommands == {<<"STATUS_REQUEST">>, <<"UNLOCK_DOOR">>}
GwParams == {Null, <<"{}">>}
PeriphTypes == {<<"EVENT">>, <<"HEARTBEAT">>}
PeriphData == {<<>>, <<"{}">>}
NoPeriphResult == [node |-> "", firmware |-> "", ok |-> FALSE, replies |-> <<>>]
NoPeriphTx == [from |-> "", line |-> <<>>]
NoGwReceived == [from |-> "", ok |-> FALSE, source |-> <<>>]

notGatewayVars == <<registryVars, serverVars, queueVars, bookingVars, busVars,
                    calendarVars, displayVars>>

InitGateway ==
    /\ gwTx = <<>>
    /\ gwTxInput = <<>>
    /\ periphResult = NoPeriphResult
    /\ periphTx = NoPeriphTx
    /\ gwReceived = NoGwReceived
    /\ esp32bConnected = FALSE
    /\ esp32cConnected = FALSE
    /\ gwHeartbeat = [esp32b |-> FALSE, esp32c |-> FALSE]

\* sendRS485Message(target, command, params) of the gateway: the line printed;
\* the second separator is written only with params
EncodeGatewayFrame(target, command, params) ==
    target \o <<Semicolon>> \o command
           \o (IF params # Null THEN <<Semicolon>> \o params ELSE <<>>)
           \o <<Newline>>

\* handleRS485Command of the gateway: the command of the server goes on the bus
GatewaySend(target, command, params) ==
    /\ gwTx' = EncodeGatewayFrame(target, command, params)
    /\ gwTxInput' = <<target, command, params>>
    /\ periphResult' = NoPeriphResult
    /\ UNCHANGED <<periphTx, gwReceived, esp32bConnected, esp32cConnected, gwHeartbeat>>
    /\ UNCHANGED notGatewayVars

\* what handleRS485Message of the plain firmware sends back for a frame
PlainReplies(n, frame) ==
    IF n = "B" /\ frame[2] = <<"ACTION">> /\ frame[3] = <<"STATUS_REQUEST">>
    THEN << <<<<"A">>, <<"STATUS">>, <<"ONLINE,RFID_READY,BUTTONS_READY">>>> >>
    ELSE IF n = "C" /\ frame[2] = <<"STATUS">>
    THEN << <<<<"A">>, <<"STATUS">>, <<"ONLINE,DISPLAY_READY">>>> >>
    ELSE <<>>

\* what parseRS485Message of the optimized firmware sends back for a frame:
\* sendStatusUpdate for STATUS_REQUEST, then the acknowledgment
OptimizedReplies(frame) ==
    (IF frame[2] = <<"STATUS_REQUEST">>
     THEN << <<<<"A">>, <<"STATUS_UPDATE">>, <<"{}">>>> >> ELSE <<>>)
    \o << <<<<"A">>, <<"COMMAND_ACK">>, frame[2]>> >>

\* peripheral n, running one of its two firmwares, reads the gateway's line
PeripheralReceive(n, firmware) ==
    /\ gwTx # <<>>
    /\ LET decoded == IF firmware = "plain" THEN DecodeLine(n, gwTx)
                      ELSE DecodeLineOptimized(n, gwTx)
       IN periphResult' =
            [node |-> n, firmware |-> firmware, ok |-> decoded.ok,
             replies |-> IF ~decoded.ok THEN <<>>
                         ELSE IF firmware = "plain" THEN PlainReplies(n, decoded.frame)
                         ELSE OptimizedReplies(decoded.frame)]
    /\ UNCHANGED <<gwTx, gwTxInput, periphTx, gwReceived, esp32bConnected,
                   esp32cConnected, gwHeartbeat>>
    /\ UNCHANGED notGatewayVars

\* peripheral n sends an event or a heartbeat: sendRS485Message("A", type, data)
PeripheralSend(n, type, data) ==
    /\ periphTx' = [from |-> n, line |-> EncodeFrame(<<"A">>, type, data)]
    /\ UNCHANGED <<gwTx, gwTxInput, periphResult, gwReceived, esp32bConnected,
                   esp32cConnected, gwHeartbeat>>
    /\ UNCHANGED notGatewayVars

\* handleRS485 of the gateway on the line of a peripheral: parseRS485Message
\* takes the first field as the source, sets the flag of that source and
\* forwards the message upstream as coming from "ESP32" + source
GatewayReceive ==
    /\ periphTx.from # ""
    /\ LET decoded == DecodeLine("A", periphTx.line) IN
       /\ gwReceived' = [from |-> periphTx.from, ok |-> decoded.ok,
                         source |-> IF decoded.ok THEN <<"ESP32">> \o decoded.frame[1]
                                    ELSE <<>>]
       /\ esp32bConnected' = (esp32bConnected \/ (decoded.ok /\ decoded.frame[1] = <<"B">>))
       /\ esp32cConnected' = (esp32cConnected \/ (decoded.ok /\ decoded.frame[1] = <<"C">>))
    /\ periphTx' = NoPeriphTx
    /\ UNCHANGED <<gwTx, gwTxInput, periphResult, gwHeartbeat>>
    /\ UNCHANGED notGatewayVars

\* sendHeartbeat of the gateway: the flags as they are
GatewayHeartbeat ==
    /\ gwHeartbeat' = [esp32b |-> esp32bConnected, esp32c |-> esp32cConnected]
    /\ UNCHANGED <<gwTx, gwTxInput, periphResult, periphTx, gwReceived,
                   esp32bConnected, esp32cConnected>>
    /\ UNCHANGED notGatewayVars

NextGateway ==
    \/ \E n \in Peripherals, c \in GwCommands, p \in GwParams : GatewaySend(<<n>>, c, p)
    \/ \E n \in Peripherals, f \in Firmwares : PeripheralReceive(n, f)
    \/ \E n \in Peripherals, t \in PeriphTypes, d \in PeriphData : PeripheralSend(n, t, d)
    \/ GatewayReceive
    \/ GatewayHeartbeat

\* the line the peripheral took from the bus
GwLineRead == Trim(ReadStringUntil(gwTx, Newline))

\* C35: every frame the gateway encodes has two ';' separators and a final
\* newline, with or without parameters, and the peripheral it is sent to
\* accepts it.
C35_GatewayFramesWellFormed ==
    /\ gwTx # <<>> => (gwTx[Len(gwTx)] = Newline /\ SecondSemi(GwLineRead) # 0)
    /\ (periphResult.node # "" /\ gwTxInput[1] = <<periphResult.node>>) => periphResult.ok

\* C36: after the gateway receives a well-formed frame sent by peripheral B
\* (C), esp32bConnected (esp32cConnected) is true and the forwarded message
\* names that peripheral as its source.
C36_SenderRecorded ==
    /\ (gwReceived.from = "B" /\ gwReceived.ok)
          => (esp32bConnected /\ gwReceived.source = <<"ESP32", "B">>)
    /\ (gwReceived.from = "C" /\ gwReceived.ok)
          => (esp32cConnected /\ gwReceived.source = <<"ESP32", "C">>)

\* the acknowledgments among the frames a peripheral sent back
CommandAcks(replies) == SelectSeq(replies, LAMBDA f : f[2] = <<"COMMAND_ACK">>)

\* C38: a peripheral answers every frame addressed to it with exactly one
\* COMMAND_ACK that names the command received, and sends none for a frame
\* addressed to another node.
C38_OneAckPerFrame ==
    periphResult.node # "" =>
        IF SecondSemi(GwLineRead) # 0 /\ Fields(GwLineRead)[1] = <<periphResult.node>>
        THEN /\ Len(CommandAcks(periphResult.replies)) = 1
             /\ CommandAcks(periphResult.replies)[1][3] = Fields(GwLineRead)[2]
        ELSE CommandAcks(periphResult.replies) = <<>>

(***************************************************************************)
(* The display node: the countdown of a meeting.                           *)
(***************************************************************************)
\* the loop of the display runs twice between two steps of the clock
DisplayTickMs == 500

notDisplayVars == <<registryVars, serverVars, queueVars, bookingVars, busVars,
                    calendarVars, gatewayVars>>

InitDisplay ==
    /\ dispMillis = 0
    /\ countdown = 0
    /\ countdownActive = FALSE
    /\ countdownStart = 0
    /\ dispStatus = "Available"
    /\ countdownSeconds = 0
    /\ dispSent = <<>>

\* startCountdown(params): params.toInt() seconds, nothing unless positive
StartCountdown(seconds) ==
    /\ IF seconds > 0
       THEN /\ countdown' = seconds
            /\ countdownActive' = TRUE
            /\ countdownStart' = dispMillis
            /\ countdownSeconds' = seconds
       ELSE UNCHANGED <<countdown, countdownActive, countdownStart, countdownSeconds>>
    /\ dispSent' = <<>>
    /\ UNCHANGED <<dispMillis, dispStatus, notDisplayVars>>

\* setRoomStatus(params)
SetRoomStatus(status) ==
    /\ dispStatus' = status
    /\ dispSent' = <<>>
    /\ UNCHANGED <<dispMillis, countdown, countdownActive, countdownStart,
                   countdownSeconds, notDisplayVars>>

\* (millis() - displayState.countdownStart) / 1000
Elapsed == (dispMillis - countdownStart) \div SecondMs

\* updateCountdown, called in every turn of the loop
UpdateCountdown ==
    /\ IF countdownActive /\ countdown > 0
       THEN IF countdown - Elapsed <= 0
            THEN /\ countdownActive' = FALSE
                 /\ countdown' = 0
                 /\ dispStatus' = "Available"
                 /\ dispSent' = << <<<<"A">>, <<"COUNTDOWN_FINISHED">>, <<"{}">>>> >>
            ELSE /\ countdown' = countdown - Elapsed
                 /\ dispSent' = <<>>
                 /\ UNCHANGED <<countdownActive, dispStatus>>
       ELSE /\ dispSent' = <<>>
            /\ UNCHANGED <<countdown, countdownActive, dispStatus>>
    /\ UNCHANGED <<dispMillis, countdownStart, countdownSeconds, notDisplayVars>>

\* time passes on the display
DisplayTick ==
    /\ dispMillis < MaxDisplayTicks * DisplayTickMs
    /\ dispMillis' = dispMillis + DisplayTickMs
    /\ UNCHANGED <<countdown, countdownActive, countdownStart, dispStatus,
                   countdownSeconds, dispSent, notDisplayVars>>

NextDisplay ==
    \/ \E seconds \in 0..MaxCountdown : StartCountdown(seconds)
    \/ \E status \in {"Available", "Occupied"} : SetRoomStatus(status)
    \/ UpdateCountdown
    \/ DisplayTick

\* C37: a countdown started with N seconds shows N minus the elapsed seconds
\* at every update, and finishes (inactive, status Available,
\* COUNTDOWN_FINISHED sent) when N seconds have elapsed, not earlier.
C37_CountdownFollowsClock ==
    [][ (UpdateCountdown /\ countdownActive /\ countdown > 0)
        => IF Elapsed < countdownSeconds
           THEN countdownActive' /\ countdown' = countdownSeconds - Elapsed
           ELSE /\ ~countdownActive'
                /\ dispStatus' = "Available"
                /\ \E i \in 1..Len(dispSent') : dispSent'[i][2] = <<"COUNTDOWN_FINISHED">> ]_vars

(***************************************************************************)
(* The bus: every node drives the line when it has a frame to send.        *)
(***************************************************************************)
\* the frames the nodes send: commands of the gateway, events of the others
BusFrames(n) ==
    IF n = "A" THEN { <<<<"B">>, <<"S">>, <<>>>>, <<<<"C">>, <<"D">>, <<>>>> }
    ELSE { <<<<"A">>, <<"E">>, <<>>>> }

\* sendRS485Message up to digitalWrite(DE, HIGH)
BusEnable(n, frame) ==
    /\ busPc[n] = "idle"
    /\ busSent < MaxBusFrames
    /\ busSent' = busSent + 1
    /\ busTx' = [busTx EXCEPT ![n] = EncodeFrame(frame[1], frame[2], frame[3])]
    /\ busDE' = [busDE EXCEPT ![n] = TRUE]
    /\ busPc' = [busPc EXCEPT ![n] = "enabled"]
    /\ UNCHANGED <<busRx, busDecoded, codecVars, notBusVars>>

\* another node drives the line while n does
Collision(n) == \E o \in Nodes \ {n} : busDE[o]

\* print and flush: the nodes in receive mode get the line; what they get
\* when two drivers are enabled at once is not determined
BusWrite(n, garbled) ==
    /\ busPc[n] = "enabled"
    /\ garbled => Collision(n)
    /\ busRx' = [o \in Nodes |->
                    IF o = n \/ busDE[o] THEN busRx[o]
                    ELSE busRx[o] \o (IF garbled THEN <<"?">> ELSE busTx[n])]
    /\ busPc' = [busPc EXCEPT ![n] = "written"]
    /\ UNCHANGED <<busDE, busTx, busDecoded, busSent, codecVars, notBusVars>>

\* a send that returns without lowering the transmit enable
BusReturnEnabled(n) ==
    /\ busPc[n] = "written"
    /\ busPc' = [busPc EXCEPT ![n] = "idle"]
    /\ UNCHANGED <<busDE, busTx, busRx, busDecoded, busSent, codecVars, notBusVars>>

\* digitalWrite(DE, LOW): back to receive mode
BusRelease(n) ==
    /\ busPc[n] = "written"
    /\ busDE' = [busDE EXCEPT ![n] = FALSE]
    /\ busPc' = [busPc EXCEPT ![n] = "idle"]
    /\ UNCHANGED <<busTx, busRx, busDecoded, busSent, codecVars, notBusVars>>

\* handleRS485 / checkRS485Messages in the loop of node n
BusReceive(n) ==
    /\ busPc[n] = "idle"
    /\ busRx[n] # <<>>
    /\ busDecoded' = [busDecoded EXCEPT ![n] = DecodeLine(n, busRx[n])]
    /\ busRx' = [busRx EXCEPT ![n] = AfterReadStringUntil(busRx[n], Newline)]
    /\ UNCHANGED <<busPc, busDE, busTx, busSent, codecVars, notBusVars>>

NextBus ==
    \/ \E n \in Nodes : \E frame \in BusFrames(n) : BusEnable(n, frame)
    \/ \E n \in Nodes, garbled \in BOOLEAN : BusWrite(n, garbled)
    \/ \E n \in Nodes : BusRelease(n)
    \/ \E n \in Nodes : BusReceive(n)

\* C4: at every instant at most one node of the bus has its transmit enable
\* asserted and is writing a frame, so that no two frames overlap on the wire.
C4_OneDriver ==
    Cardinality({n \in Nodes : busDE[n]}) <= 1

\* C40: on every node the transmit enable is asserted only for the duration of
\* one frame write: it is low (receive mode) before every send, high from just
\* before the write to just after it, and so low whenever the node is not
\* inside a send.
C40_EnableOnlyInsideSend ==
    \A n \in Nodes : busDE[n] <=> (busPc[n] \in {"enabled", "written"})

\* a node has sent a frame and is back in receive mode, another node is
\* inside its own send
C40_SentAndReleased ==
    \E n \in Nodes :
        /\ busPc[n] = "idle" /\ ~busDE[n] /\ busTx[n] # <<>>
        /\ \E o \in Nodes \ {n} : busPc[o] = "written" /\ busDE[o]

Next ==
    \/ \E s \in SocketIds : Connection(s)
    \/ \E s \in SocketIds, d \in RegDevices, r \in RegRooms : Esp32Register(s, d, r)
    \/ \E s \in SocketIds : WebClientRegister(s)
    \/ \E s \in SocketIds, e \in EventTypes : Esp32Event(s, e)
    \/ \E s \in SocketIds : Heartbeat(s)
    \/ \E s \in SocketIds, d \in RegDevices, c \in CommandTypes : SendCommand(s, d, c)
    \/ \E s \in SocketIds : Disconnect(s)
    \/ HeartbeatCheck
    \/ Tick

InitQueue ==
    /\ deviceCommandQueue = EmptyMap
    /\ connectTasks = <<>>
    /\ deliveredLog = <<>>
    /\ nextCmdId = 1
    /\ svcResult = NoResult

InitBooking ==
    /\ bookings \in [BookingIds -> {[room_id |-> "room1", qr_code |-> "qr1",
                                     start_time |-> BookingStart, end_time |-> BookingEnd,
                                     status |-> st] : st \in {"pending", "confirmed"}}]
    /\ issued = <<>>
    /\ qrResult = NoScan

InitBus ==
    /\ busPc = [n \in Nodes |-> "idle"]
    /\ busDE = [n \in Nodes |-> FALSE]
    /\ busTx = [n \in Nodes |-> <<>>]
    /\ busRx = [n \in Nodes |-> <<>>]
    /\ busDecoded = [n \in Nodes |-> NoFrame]
    /\ busSent = 0
    /\ codecInput = <<>>
    /\ codecLine = <<>>
    /\ codecDecoded = [node |-> "", ok |-> FALSE, frame |-> <<>>]

Init ==
    /\ InitRegistry /\ InitServer /\ InitQueue /\ InitBooking /\ InitBus
    /\ InitCalendar /\ InitGateway /\ InitDisplay

Spec == Init /\ [][Next]_vars

SpecServer == Init /\ [][NextServer]_vars

SpecQueue == Init /\ [][NextQueue]_vars

SpecBooking == Init /\ [][NextBooking]_vars

\* the one-minute interval keeps running and the clock keeps moving
SpecUpdates ==
    Init /\ [][NextUpdates]_vars /\ WF_vars(AutomaticUpdates) /\ WF_vars(BookingClock)

SpecSessions == Init /\ [][NextSessions]_vars

SpecDispatch == Init /\ [][NextDispatch]_vars

SpecCalendar == Init /\ [][NextCalendar]_vars

SpecGateway == Init /\ [][NextGateway]_vars

SpecDisplay == Init /\ [][NextDisplay]_vars

SpecCleanup == Init /\ [][NextCleanup]_vars

SpecCodec == Init /\ [][NextCodec]_vars

SpecBus == Init /\ [][NextBus]_vars

=============================================================================
